---- MODULE Spec2Model ----
(***************************************************************************)
(* Scan orchestration of Hack-Your-Own-Web: the scans / scan_alerts        *)
(* tables, the FastAPI CRUD operations that admit and cancel scans, the    *)
(* Celery scan_queue and the run_scan / cancel_scan tasks run by the       *)
(* worker pool.                                                            *)
(*                                                                         *)
(* Granularity: one action per database round trip (a select, a commit),   *)
(* broker call or engine call.  Calls into the database, the broker and    *)
(* the ZAP engine either return or raise; both outcomes are enumerated.    *)
(***************************************************************************)
EXTENDS Integers, Sequences, FiniteSets, TLC

\* ------------------------------------------------------------- bounds
MaxScans == 2          \* scans rows created in the lifecycle specification
MaxQuotaScans == 6     \* scans rows created in the admission specification
NumClients == 1        \* create requests in flight at once, lifecycle
NumQuotaClients == 2   \* create requests in flight at once, admission
NumUsers == 1          \* owners
MaxCancels == 1        \* cancel requests accepted over a behaviour
MaxAlerts == 2         \* longest alert list the engine returns
MaxTicks == 2          \* poll ticks counted after a cancel request
MaxRawAlerts == 3      \* longest raw alert list in the ingestion specification
MaxDeleteScans == 1    \* scans rows created in the deletion specification
MaxUpdateScans == 1    \* scans rows created in the update specification
MaxPollTicks == 2      \* loop iterations that report progress, scan specification
MaxRecords == 2        \* messages one scan leaves for the passive scanner at a time
MaxHappyScans == 1     \* scans submitted one after another, undisturbed specification
MaxTimeout == 2        \* longest phase timeout, in clock units, clock specification
MaxAdvance == 2        \* most clock units that pass between two ticks of a loop
MaxNewScans == 2       \* scans rows created on top of a drawn table, table specification
MaxDeleted == 1        \* deleted rows beyond which no delete request starts, table specification

\* ---------------------------------------------------------- constants
MAX_ACTIVE_SCANS == 5  \* crud/scan.py 40: if active_scans_count >= 5
NumWorkers == 2        \* celery_worker.py 8: worker --concurrency=2

Workers == 1..NumWorkers
Users == 1..NumUsers

\* models/scan.py
ScanStatus == {"pending", "in_progress", "completed", "failed", "cancelled"}
ScanType == {"basic", "full"}
RiskLevel == {"high", "medium", "low", "informational"}
ActiveStatus == {"pending", "in_progress"}
TerminalStatus == {"completed", "failed", "cancelled"}

NULL == "None"         \* a nullable text column holding no value
NoTask == 0            \* celery_task_id IS NULL; the run task of scan i has id i
NoProgress == -1       \* ScanUpdate.progress_percentage is None
Unparsable == -1       \* an ascan.status answer that is not a number

\* Raw risk values the engine reports; "missing" is an alert without the key.
RawRisks == {"3", "2", "1", "0", "High", "Medium", "Low", "Informational",
             "bogus", "missing"}
\* The raw risk values the engine reports in the lifecycle specification.
EngineRisks == {"3", "bogus"}

VARIABLES
    scans,      \* table scans: sequence of rows, the row of scan i at index i
    alerts,     \* table scan_alerts: for each scan id, the rows' risk levels
    queue,      \* scan_queue, first in first out
    revoked,    \* task ids revoked through celery_app.control.revoke
    worker,     \* per worker process: the task it executes and where it is
    client,     \* per API request slot: the create_scan_crud call in flight
    ncancel,    \* cancel requests accepted so far
    hist,       \* per scan: what has been observed of it (history only)
    zap         \* the ZAP engine at ZAP_HOST:ZAP_PORT, where it is followed

vars == <<scans, alerts, queue, revoked, worker, client, ncancel, hist, zap>>

ScanIds == 1..Len(scans)
Clients == DOMAIN client

\* ------------------------------------------------------------- helpers
RECURSIVE SeqsUpTo(_, _)
SeqsUpTo(S, n) ==
    IF n = 0 THEN {<<>>}
    ELSE LET shorter == SeqsUpTo(S, n - 1)
         IN shorter \cup {Append(s, x) : s \in {t \in shorter : Len(t) = n - 1}, x \in S}

\* models/scan.py Scan: the columns with their defaults.  Ids are not
\* reused: a deleted row keeps its index and is marked deleted.
NewScan(user_id, scan_type) ==
    [user_id |-> user_id, scan_type |-> scan_type, target_url |-> "a",
     status |-> "pending",
     celery_task_id |-> NoTask, progress_percentage |-> 0, current_step |-> NULL,
     total_alerts |-> 0, high_risk_count |-> 0, medium_risk_count |-> 0,
     low_risk_count |-> 0, info_count |-> 0, error_message |-> NULL,
     started_at |-> FALSE, completed_at |-> FALSE, deleted |-> FALSE]

\* select ... from scans where id = :i finds a row
Present(i) == ~scans[i].deleted

\* found: the raw alert list handed to _process_alerts, where it is given.
\* reports: the percentages passed to progress_callback, in order.
\* timedOut: the phases whose timeout has fired.
\* enqueued: the run_scan messages sent for the scan.
\* started: the times a worker has marked the scan IN_PROGRESS.
\* sample: what the tick that left the Basic polling loop read from the engine.
\* origins: the scans whose traffic raised the alerts the scan has fetched.
\* clock: the time since start_time that the last tick of the loop read, and
\* the timeouts the run was configured with.
NewHist ==
    [cancelPending |-> FALSE, cancelRunning |-> FALSE, cancelDiscovery |-> FALSE,
     ticks |-> 0, found |-> <<>>, reports |-> <<>>, timedOut |-> {},
     enqueued |-> 0, started |-> 0,
     sample |-> [spider |-> 0, backlog |-> 0, at100 |-> FALSE], origins |-> {},
     clock |-> [elapsed |-> 0, spider_timeout |-> 0, passive_timeout |-> 0,
                active_timeout |-> 0],
     instance |-> [manager_initialized |-> FALSE, use_docker |-> TRUE,
                   docker_container |-> FALSE, needs_cleanup |-> FALSE,
                   start |-> "none", stops |-> <<>>],
     fetch |-> "none"]

\* initial_passive_records is 0 where the code holds None.
IdleWorker ==
    [pc |-> "idle", name |-> "none", scan_id |-> 0, spider_done |-> FALSE,
     passive_done |-> FALSE, err |-> NULL, initial_passive_records |-> 0]

\* response: the status code of the request slot's last create_scan_crud
\* call, 0 before the first one returns.
IdleClient ==
    [pc |-> "idle", user_id |-> 0, scan_type |-> "basic", scan_id |-> 0,
     response |-> 0, changes |-> <<>>]

\* The JSONResponse create_scan_crud returns to user_id.
Returned(user_id, status_code) ==
    [IdleClient EXCEPT !.user_id = user_id, !.response = status_code]

\* The engine's state for the scans started on it.
\* ascan_rules: the active scanners of the default scan policy are enabled.
\* spider, ascan: per scan, the engine-side spider and active scan.
\* records: per scan, the messages its traffic has left for the passive
\* scanner; pscan.records_to_scan is their total.
\* alerts: the alerts raised, each with its URL and the scan whose traffic
\* raised it.
NoEngine ==
    [ascan_rules |-> TRUE, spider |-> <<>>, ascan |-> <<>>, records |-> <<>>,
     alerts |-> {}]

\* The count of the owner's rows in any status.
ScansCountAnyStatus(user_id) ==
    Cardinality({i \in ScanIds : Present(i) /\ scans[i].user_id = user_id})

\* select count(*) from scans where user_id = :u and status in (pending, in_progress)
ActiveScansCount(user_id) ==
    Cardinality({i \in ScanIds : /\ Present(i)
                                 /\ scans[i].user_id = user_id
                                 /\ scans[i].status \in ActiveStatus})

Init ==
    /\ scans = <<>>
    /\ alerts = <<>>
    /\ queue = <<>>
    /\ revoked = {}
    /\ worker = [w \in Workers |-> IdleWorker]
    /\ client = [c \in 1..NumClients |-> IdleClient]
    /\ ncancel = 0
    /\ hist = <<>>
    /\ zap = NoEngine

InitQuota ==
    /\ scans = <<>>
    /\ alerts = <<>>
    /\ queue = <<>>
    /\ revoked = {}
    /\ worker = [w \in Workers |-> IdleWorker]
    /\ client = [c \in 1..NumQuotaClients |-> IdleClient]
    /\ ncancel = 0
    /\ hist = <<>>
    /\ zap = NoEngine

\* ------------------------------------------------ create_scan_crud
\* The limit taken as exclusive.
QuotaReachedAbove(count) == count > MAX_ACTIVE_SCANS

\* crud/scan.py 30-48: the active-scan count and the quota decision.
QuotaReached(count) == count >= MAX_ACTIVE_SCANS

CreateCount(c, user_id, scan_type) ==
    /\ client[c].pc = "idle"
    /\ IF QuotaReached(ActiveScansCount(user_id))
       THEN client' = [client EXCEPT ![c] = Returned(user_id, 429)]
       ELSE client' = [client EXCEPT ![c] =
                [IdleClient EXCEPT !.pc = "admitted", !.user_id = user_id,
                                   !.scan_type = scan_type]]
    /\ UNCHANGED <<scans, alerts, queue, revoked, worker, ncancel, hist, zap>>

\* crud/scan.py 88-93: an exception anywhere in the body is answered with 500.
InternalError(c) == client' = [client EXCEPT ![c] = Returned(client[c].user_id, 500)]

\* crud/scan.py 50-60: insert the row as PENDING and commit.
CreateInsert(c) ==
    /\ client[c].pc = "admitted"
    /\ \/ /\ scans' = Append(scans, NewScan(client[c].user_id, client[c].scan_type))
          /\ alerts' = Append(alerts, <<>>)
          /\ hist' = Append(hist, NewHist)
          /\ client' = [client EXCEPT ![c].pc = "inserted",
                                      ![c].scan_id = Len(scans) + 1]
       \/ \* the commit raises: no row
          /\ InternalError(c)
          /\ UNCHANGED <<scans, alerts, hist>>
    /\ UNCHANGED <<queue, revoked, worker, ncancel, zap>>

\* The message is published twice.
CreateEnqueueTwice(c) ==
    /\ client[c].pc = "inserted"
    /\ queue' = queue \o <<[name |-> "run_scan", scan_id |-> client[c].scan_id],
                           [name |-> "run_scan", scan_id |-> client[c].scan_id]>>
    /\ hist' = [hist EXCEPT ![client[c].scan_id].enqueued = @ + 2]
    /\ client' = [client EXCEPT ![c].pc = "queued"]
    /\ UNCHANGED <<scans, alerts, revoked, worker, ncancel, zap>>

\* crud/scan.py 62-65: run_scan_task.apply_async.
CreateEnqueue(c) ==
    /\ client[c].pc = "inserted"
    /\ \/ /\ queue' = Append(queue, [name |-> "run_scan", scan_id |-> client[c].scan_id])
          /\ hist' = [hist EXCEPT ![client[c].scan_id].enqueued = @ + 1]
          /\ client' = [client EXCEPT ![c].pc = "queued"]
       \/ \* the broker is unreachable: the row committed at line 59 stays
          /\ InternalError(c)
          /\ UNCHANGED <<queue, hist>>
    /\ UNCHANGED <<scans, alerts, revoked, worker, ncancel, zap>>

\* crud/scan.py 67-70: record the task id on the row held by the request's
\* session and commit; the UPDATE carries the changed column only.
CreateSetTaskId(c) ==
    /\ client[c].pc = "queued"
    /\ \/ /\ Present(client[c].scan_id)
          /\ scans' = [scans EXCEPT ![client[c].scan_id].celery_task_id =
                                        client[c].scan_id]
          /\ client' = [client EXCEPT ![c] = Returned(client[c].user_id, 201)]
       \/ \* the commit raises (also when the UPDATE finds the row deleted):
          \* the row, if any, and the queued task stay
          /\ InternalError(c)
          /\ UNCHANGED scans
    /\ UNCHANGED <<alerts, queue, revoked, worker, ncancel, hist, zap>>

\* ------------------------------------------------ _process_alerts
\* tasks/scan_tasks.py 181: risk_str = str(alert.get("risk", "0"))
RiskStr(raw) == IF raw = "missing" THEN "0" ELSE raw

\* Only the numeric forms are looked up; a label falls to the default.
MapRiskNumericOnly(raw) ==
    CASE RiskStr(raw) = "3" -> "high"
      [] RiskStr(raw) = "2" -> "medium"
      [] RiskStr(raw) = "1" -> "low"
      [] OTHER -> "informational"

\* tasks/scan_tasks.py 166-182: risk_mapping.get(risk_str, RiskLevel.INFORMATIONAL)
MapRisk(raw) ==
    CASE RiskStr(raw) \in {"3", "High"} -> "high"
      [] RiskStr(raw) \in {"2", "Medium"} -> "medium"
      [] RiskStr(raw) \in {"1", "Low"} -> "low"
      [] RiskStr(raw) \in {"0", "Informational"} -> "informational"
      [] OTHER -> "informational"

\* tasks/scan_tasks.py 180-206: one ScanAlert per raw alert, in order
AlertObjects(found) == [k \in 1..Len(found) |-> MapRisk(found[k])]

\* Counting only the risk values the mapping names, not the default.
RiskCountNamedOnly(found, level) ==
    Cardinality({k \in 1..Len(found) :
        found[k] \in {"3", "2", "1", "0", "High", "Medium", "Low", "Informational"}
        /\ MapRisk(found[k]) = level})

\* tasks/scan_tasks.py 185: risk_counts[risk_level.value] += 1
RiskCount(found, level) ==
    Cardinality({k \in 1..Len(found) : MapRisk(found[k]) = level})

\* The summary without the line that writes info_count.
WithSummaryNoInfo(row, found) ==
    [row EXCEPT !.total_alerts = Len(found),
                !.high_risk_count = RiskCount(found, "high"),
                !.medium_risk_count = RiskCount(found, "medium"),
                !.low_risk_count = RiskCount(found, "low")]

\* tasks/scan_tasks.py 213-219: the summary written on the scan row
WithSummary(row, found) ==
    [row EXCEPT !.total_alerts = Len(found),
                !.high_risk_count = RiskCount(found, "high"),
                !.medium_risk_count = RiskCount(found, "medium"),
                !.low_risk_count = RiskCount(found, "low"),
                !.info_count = RiskCount(found, "informational")]

\* ------------------------------------------------ worker pool
TaskOf(w) == worker[w].scan_id

Running(w, name) == worker[w].pc # "idle" /\ worker[w].name = name

\* The worker leaves the task: the process takes the next message.
EndTask(w) == worker' = [worker EXCEPT ![w] = IdleWorker]

\* Enter the except block of _run_scan_async (line 133) with exception e.
Raise(w, e) == worker' = [worker EXCEPT ![w].pc = "except", ![w].err = e]

\* The pool hands a message to a free process; the processes are
\* interchangeable, so the first free one stands for any of them.
Free(w) ==
    /\ worker[w].pc = "idle"
    /\ \A v \in Workers : worker[v].pc = "idle" => w <= v

\* A revoked task id is dropped by the worker that receives the message.
DiscardRevoked(w) ==
    /\ Free(w)
    /\ queue # <<>>
    /\ Head(queue).name = "run_scan"
    /\ Head(queue).scan_id \in revoked
    /\ queue' = Tail(queue)
    /\ UNCHANGED <<scans, alerts, revoked, worker, client, ncancel, hist, zap>>

\* The task starts the scan without looking for the row: the IN_PROGRESS
\* write puts the row back where the select would have found none.
RunStartNoLookup(w) ==
    /\ Free(w)
    /\ queue # <<>>
    /\ Head(queue).name = "run_scan"
    /\ Head(queue).scan_id \notin revoked
    /\ queue' = Tail(queue)
    /\ LET i == Head(queue).scan_id
       IN /\ scans' = [scans EXCEPT ![i].status = "in_progress",
                                    ![i].started_at = TRUE,
                                    ![i].celery_task_id = i,
                                    ![i].deleted = FALSE]
          /\ worker' = [worker EXCEPT ![w] =
                 [IdleWorker EXCEPT !.pc = "scan", !.name = "run_scan",
                                    !.scan_id = i]]
          /\ hist' = [hist EXCEPT ![i].started = @ + 1]
    /\ UNCHANGED <<alerts, revoked, client, ncancel, zap>>

\* tasks/scan_tasks.py 53-74: load the row, mark it IN_PROGRESS, commit.
\* The select and the commit are one step: the UPDATE writes status,
\* started_at and celery_task_id whatever the row held when it was read.
RunStart(w) ==
    /\ Free(w)
    /\ queue # <<>>
    /\ Head(queue).name = "run_scan"
    /\ Head(queue).scan_id \notin revoked
    /\ queue' = Tail(queue)
    /\ LET i == Head(queue).scan_id
       IN \/ /\ Present(i)
             /\ scans' = [scans EXCEPT ![i].status = "in_progress",
                                       ![i].started_at = TRUE,
                                       ![i].celery_task_id = i]
             /\ worker' = [worker EXCEPT ![w] =
                    [IdleWorker EXCEPT !.pc = "scan", !.name = "run_scan",
                                       !.scan_id = i]]
             /\ hist' = [hist EXCEPT ![i].started = @ + 1]
          \/ \* no row (58-61), or the select or the commit raises: outside
             \* the try block, the task fails and on_failure only logs
             /\ UNCHANGED <<scans, worker, hist>>
    /\ UNCHANGED <<alerts, revoked, client, ncancel, zap>>

\* tasks/scan_tasks.py 81-96 and zap_scanner.py 432-462 / 556-599: get the
\* scanner, start the engine instance, configure the policy, start the
\* spider (and the active scan) and enter the loop.  The engine is not
\* followed here, so the calls are one step with each way of raising.
ScanBegin(w) ==
    /\ worker[w].pc = "scan"
    /\ \/ worker' = [worker EXCEPT ![w].pc = "poll"]
       \/ Raise(w, "Failed to start ZAP instance")
       \/ Raise(w, "engine error")
    /\ UNCHANGED <<scans, alerts, queue, revoked, client, ncancel, hist, zap>>

\* History: the loop of scan i ends one more tick after a cancel request was
\* accepted for it while IN_PROGRESS.  Only ticks during which every worker
\* process executes a run_scan task are counted: a process that is free, or
\* already in the cancel task, needs no tick to get on.
Ticked(i) ==
    [hist EXCEPT ![i].ticks =
        IF /\ hist[i].cancelRunning
           /\ \A v \in Workers : Running(v, "run_scan")
           /\ @ < MaxTicks
        THEN @ + 1 ELSE @]

\* The loop raises a timeout error instead of being left.
LeaveLoopTimeoutError(w) == Raise(w, "Scan timed out")

\* zap_scanner.py 500-507 / 676-685: the loop is left.
LeaveLoop(w) ==
    worker' = [worker EXCEPT ![w].pc = "process_alerts", ![w].spider_done = TRUE,
                             ![w].passive_done = TRUE]

\* zap_scanner.py 469-516: one iteration of the Basic loop on the samples
\* of the tick, the progress reports left aside.
BasicPoll(w, spider_progress, passive_remaining, spider_timeout, passive_timeout) ==
    LET done == \/ worker[w].spider_done
                \/ spider_progress >= 100
                \/ spider_timeout
    IN IF done /\ (passive_remaining = 0 \/ passive_timeout)
       THEN LeaveLoop(w)
       ELSE worker' = [worker EXCEPT ![w].spider_done = done]

PollBasic(w) ==
    /\ worker[w].pc = "poll"
    /\ scans[TaskOf(w)].scan_type = "basic"
    /\ \E spider_progress \in {50, 100}, passive_remaining \in {0, 3},
          spider_timeout \in BOOLEAN, passive_timeout \in BOOLEAN :
        BasicPoll(w, spider_progress, passive_remaining, spider_timeout,
                  passive_timeout)
    /\ hist' = Ticked(TaskOf(w))
    /\ UNCHANGED <<scans, alerts, queue, revoked, client, ncancel, zap>>

\* zap_scanner.py 612-718: one iteration of the Full loop (AJAX spider off)
\* on the samples of the tick, the progress reports left aside.
FullPoll(w, spider_progress, passive_remaining, active_progress, spider_timeout, active_timeout) ==
    LET sdone == \/ worker[w].spider_done
                 \/ spider_progress >= 100
                 \/ spider_timeout
        pdone == worker[w].passive_done \/ (passive_remaining = 0 /\ sdone)
    IN IF (sdone /\ pdone /\ active_progress >= 100) \/ active_timeout
       THEN LeaveLoop(w)
       ELSE worker' = [worker EXCEPT ![w].spider_done = sdone,
                                     ![w].passive_done = pdone]

PollFull(w) ==
    /\ worker[w].pc = "poll"
    /\ scans[TaskOf(w)].scan_type = "full"
    /\ \E spider_progress \in {50, 100}, passive_remaining \in {0, 3},
          active_progress \in {50, 100},
          spider_timeout \in BOOLEAN, active_timeout \in BOOLEAN :
        FullPoll(w, spider_progress, passive_remaining, active_progress,
                 spider_timeout, active_timeout)
    /\ hist' = Ticked(TaskOf(w))
    /\ UNCHANGED <<scans, alerts, queue, revoked, client, ncancel, zap>>

\* ---- the polling loops with their progress reports
\* The values sampled from zap.spider.status, zap.pscan.records_to_scan and
\* zap.ascan.status.
SpiderSamples == {0, 50, 100}
BacklogSamples == {0, 2, 4}
ActiveSamples == {0, 50, 100}

Min(a, b) == IF a < b THEN a ELSE b
Max(a, b) == IF a > b THEN a ELSE b

\* zap_scanner.py 489-490 / 647-648
InitialRecords(initial, remaining) ==
    IF initial = 0 /\ remaining > 0 THEN remaining ELSE initial

\* zap_scanner.py 493-497 / 651-655: int((1 - remaining / initial) * 100)
\* truncates towards zero, then min(99, max(0, .)).
PassiveProgress(initial, remaining) ==
    IF initial > 0
    THEN Min(99, Max(0, IF remaining >= initial THEN 0
                        ELSE ((initial - remaining) * 100) \div initial))
    ELSE IF remaining > 0 THEN 0 ELSE 100

\* zap_scanner.py 512: int(spider_progress * 0.4 + passive_progress * 0.6)
BasicCombined(spider_progress, passive_progress) ==
    (4 * spider_progress + 6 * passive_progress) \div 10

\* The weighted sum rounded to the nearest integer.
FullCombinedRounded(spider_progress, passive_progress, active_progress) ==
    (2 * spider_progress + 2 * passive_progress + 6 * active_progress + 5) \div 10

\* zap_scanner.py 706-710: int(spider * 0.2 + passive * 0.2 + active * 0.6)
FullCombined(spider_progress, passive_progress, active_progress) ==
    (2 * spider_progress + 2 * passive_progress + 6 * active_progress) \div 10

\* progress_callback(percentage, step) is update_progress, tasks/scan_tasks.py
\* 85-87: the value is logged as it comes.  sample is what is kept of the
\* ticks' samples: those of the tick that left the Basic loop, and whether
\* a tick of it has seen the spider at 100.
Report(i, percentage, fired, sample) ==
    hist' = [hist EXCEPT ![i].reports = Append(@, percentage),
                         ![i].timedOut = @ \cup fired,
                         ![i].sample = sample]

\* zap_scanner.py 480 / 623: if not spider_done and elapsed > spider_timeout,
\* reached with spider_done set already when the spider is at 100.
SpiderTimedOut(spider_done, spider_progress, spider_timeout) ==
    ~spider_done /\ spider_progress < 100 /\ spider_timeout

\* The loop ends as soon as the spider is done, whatever the backlog.
BasicCompletedSpiderOnly(spider_done, passive_remaining) == spider_done

\* zap_scanner.py 500: if spider_done and passive_remaining == 0
BasicCompleted(spider_done, passive_remaining) ==
    spider_done /\ passive_remaining = 0

\* zap_scanner.py 469-523: one iteration of the Basic loop on the samples of
\* the tick, with its report; leaving the loop reports 100 (523).
BasicLoop(w, spider_progress, passive_remaining, spider_timeout, passive_timeout) ==
    LET i == TaskOf(w)
        spider_timed == SpiderTimedOut(worker[w].spider_done, spider_progress,
                                       spider_timeout)
        spider_done == \/ worker[w].spider_done
                       \/ spider_progress >= 100
                       \/ spider_timed
        initial == InitialRecords(worker[w].initial_passive_records,
                                  passive_remaining)
        passive_progress == PassiveProgress(initial, passive_remaining)
        completed == BasicCompleted(spider_done, passive_remaining)
        passive_timed == ~completed /\ spider_done /\ passive_timeout
        fired == (IF spider_timed THEN {"spider"} ELSE {})
                 \cup (IF passive_timed THEN {"passive"} ELSE {})
        at100 == hist[i].sample.at100 \/ spider_progress >= 100
        sample == [spider |-> spider_progress, backlog |-> passive_remaining,
                   at100 |-> at100]
    IN IF completed \/ passive_timed
       THEN /\ LeaveLoop(w)
            /\ Report(i, 100, fired, sample)
       ELSE /\ Len(hist[i].reports) < 2 + MaxPollTicks
            /\ worker' = [worker EXCEPT ![w].spider_done = spider_done,
                                         ![w].initial_passive_records = initial]
            /\ Report(i, BasicCombined(spider_progress, passive_progress), fired,
                      [hist[i].sample EXCEPT !.at100 = at100])

\* One iteration of the Basic loop on any samples.
BasicTick(w) ==
    /\ worker[w].pc = "poll"
    /\ scans[TaskOf(w)].scan_type = "basic"
    /\ \E spider_progress \in SpiderSamples, passive_remaining \in BacklogSamples,
          spider_timeout \in BOOLEAN, passive_timeout \in BOOLEAN :
        BasicLoop(w, spider_progress, passive_remaining, spider_timeout,
                  passive_timeout)
    /\ UNCHANGED <<scans, alerts, queue, revoked, client, ncancel, zap>>

\* zap_scanner.py 663-672: a status of 'does_not_exist', '' or None, and one
\* that int() cannot parse, count as 0.
ActiveProgress(active_status) ==
    IF active_status = Unparsable THEN 0 ELSE active_status

\* zap_scanner.py 612-726: one iteration of the Full loop (AJAX spider off)
\* on the samples of the tick, with its report.
FullLoop(w, spider_progress, passive_remaining, active_status, spider_timeout, active_timeout) ==
    LET i == TaskOf(w)
        spider_timed == SpiderTimedOut(worker[w].spider_done, spider_progress,
                                       spider_timeout)
        spider_done == \/ worker[w].spider_done
                       \/ spider_progress >= 100
                       \/ spider_timed
        initial == InitialRecords(worker[w].initial_passive_records,
                                  passive_remaining)
        passive_progress == PassiveProgress(initial, passive_remaining)
        passive_done == \/ worker[w].passive_done
                        \/ (passive_remaining = 0 /\ spider_done)
        active_progress == ActiveProgress(active_status)
        completed == spider_done /\ passive_done /\ active_progress >= 100
        active_timed == ~completed /\ active_timeout
        fired == (IF spider_timed THEN {"spider"} ELSE {})
                 \cup (IF active_timed THEN {"active"} ELSE {})
    IN IF completed \/ active_timed
       THEN /\ LeaveLoop(w)
            /\ Report(i, 100, fired, hist[i].sample)
       ELSE /\ Len(hist[i].reports) < 2 + MaxPollTicks
            /\ worker' = [worker EXCEPT ![w].spider_done = spider_done,
                                         ![w].passive_done = passive_done,
                                         ![w].initial_passive_records = initial]
            /\ Report(i, FullCombined(spider_progress, passive_progress,
                                      active_progress), fired, hist[i].sample)

\* One iteration of the Full loop on any samples.
FullTick(w) ==
    /\ worker[w].pc = "poll"
    /\ scans[TaskOf(w)].scan_type = "full"
    /\ \E spider_progress \in SpiderSamples, passive_remaining \in BacklogSamples,
          active_status \in ActiveSamples \cup {Unparsable},
          spider_timeout \in BOOLEAN, active_timeout \in BOOLEAN :
        FullLoop(w, spider_progress, passive_remaining, active_status,
                 spider_timeout, active_timeout)
    /\ UNCHANGED <<scans, alerts, queue, revoked, client, ncancel, zap>>

\* An engine call inside run_basic_scan / run_full_scan raises.
EngineRaise(w) ==
    /\ worker[w].pc = "poll"
    /\ Raise(w, "engine error")
    /\ UNCHANGED <<scans, alerts, queue, revoked, client, ncancel, hist, zap>>

\* zap_scanner.py 521-526 / 723-728 and tasks/scan_tasks.py 102-106: the scan
\* returns get_alerts' list (an engine error there gives []), then
\* _process_alerts and the commit that writes the alert rows and the
\* summary columns in one transaction.
StoreAlerts(w, found) ==
    LET i == TaskOf(w)
    IN /\ Present(i)
       /\ alerts' = [alerts EXCEPT ![i] = @ \o AlertObjects(found)]
       /\ scans' = [scans EXCEPT ![i] = WithSummary(@, found)]
       /\ worker' = [worker EXCEPT ![w].pc = "complete"]

ProcessAlerts(w) ==
    /\ worker[w].pc = "process_alerts"
    /\ \/ \E found \in SeqsUpTo(EngineRisks, MaxAlerts) : StoreAlerts(w, found)
       \/ \* the commit raises and the transaction is rolled back
          /\ Raise(w, "storage error")
          /\ UNCHANGED <<scans, alerts>>
    /\ UNCHANGED <<queue, revoked, client, ncancel, hist, zap>>

\* tasks/scan_tasks.py 104-106 on the raw alert list given in hist.
ProcessGivenAlerts(w) ==
    /\ worker[w].pc = "process_alerts"
    /\ StoreAlerts(w, hist[TaskOf(w)].found)
    /\ UNCHANGED <<queue, revoked, client, ncancel, hist, zap>>

\* The completion write without progress_percentage and current_step.
CompletedStatusOnly(row) ==
    [row EXCEPT !.status = "completed", !.completed_at = TRUE]

\* tasks/scan_tasks.py 113-120: the completion write.
Completed(row) ==
    [row EXCEPT !.status = "completed", !.completed_at = TRUE,
                !.progress_percentage = 100, !.current_step = "Completed"]

\* tasks/scan_tasks.py 109-120: cleanup_scan_context, then the completion
\* write and its commit; either call may raise.
Complete(w) ==
    /\ worker[w].pc = "complete"
    /\ \/ /\ Present(TaskOf(w))
          /\ scans' = [scans EXCEPT ![TaskOf(w)] = Completed(@)]
          /\ EndTask(w)
       \/ /\ Raise(w, "engine error")
          /\ UNCHANGED scans
       \/ /\ Raise(w, "storage error")
          /\ UNCHANGED scans
    /\ UNCHANGED <<alerts, queue, revoked, client, ncancel, hist, zap>>

\* tasks/scan_tasks.py 144-147: the FAILED write.
Failed(row, e) ==
    [row EXCEPT !.status = "failed", !.error_message = e, !.completed_at = TRUE]

\* The failed task is sent to the queue again.
HandleFailureRetry(w) ==
    /\ worker[w].pc = "except"
    /\ Present(TaskOf(w))
    /\ scans' = [scans EXCEPT ![TaskOf(w)] = Failed(@, worker[w].err)]
    /\ queue' = Append(queue, [name |-> "run_scan", scan_id |-> TaskOf(w)])
    /\ hist[TaskOf(w)].enqueued < 2
    /\ hist' = [hist EXCEPT ![TaskOf(w)].enqueued = @ + 1]
    /\ EndTask(w)
    /\ UNCHANGED <<alerts, revoked, client, ncancel, zap>>

\* tasks/scan_tasks.py 133-150: the failure handler.  The guarded cleanup
\* changes nothing; refresh, the FAILED write and the commit are one step,
\* and the exception is raised again (150): the task ends, nothing retries.
HandleFailure(w) ==
    /\ worker[w].pc = "except"
    /\ \/ /\ Present(TaskOf(w))
          /\ scans' = [scans EXCEPT ![TaskOf(w)] = Failed(@, worker[w].err)]
       \/ \* session.refresh or the commit raises: the exception leaves the
          \* task and ScanTask.on_failure (15-22) only logs
          UNCHANGED scans
    /\ EndTask(w)
    /\ UNCHANGED <<alerts, queue, revoked, client, ncancel, hist, zap>>

\* revoke(terminate=True) reaches the process that executes the task.
Terminate(w) ==
    /\ Running(w, "run_scan")
    /\ TaskOf(w) \in revoked
    /\ EndTask(w)
    /\ UNCHANGED <<scans, alerts, queue, revoked, client, ncancel, hist, zap>>

\* ------------------------------------------------ the shared engine
\* The workers' ZAPScanner objects are clients of one engine: with
\* USE_DOCKER_ZAP off start_zap_instance (zap_scanner.py 52-63) connects each
\* of them to the ZAP at ZAP_HOST:ZAP_PORT.  No call of run_basic_scan or
\* run_full_scan names a context, a session or a scan policy.
Targets == {"a", "b"}

RECURSIVE SumSeq(_)
SumSeq(q) == IF q = <<>> THEN 0 ELSE Head(q) + SumSeq(Tail(q))

\* zap.pscan.records_to_scan: the engine's one passive-scan queue.
RecordsToScan == SumSeq(zap.records)

\* zap.core.alerts(baseurl=target_url), zap_scanner.py 249-257.
AlertsFor(target_url) == {a \in zap.alerts : a.url = target_url}

\* zap_scanner.py 432-445 and 262-284:
\* zap.ascan.disable_all_scanners() on the default policy; an exception of
\* the engine call is logged and the scan goes on.
ConfigurePassivePolicy(w) ==
    /\ worker[w].pc = "scan"
    /\ scans[TaskOf(w)].scan_type = "basic"
    /\ \/ zap' = [zap EXCEPT !.ascan_rules = FALSE]
       \/ UNCHANGED zap
    /\ worker' = [worker EXCEPT ![w].pc = "configured"]
    /\ UNCHANGED <<scans, alerts, queue, revoked, client, ncancel, hist>>

\* zap_scanner.py 556-569 and 295-301: zap.ascan.disable_all_scanners(),
\* "to start fresh".
ConfigureActiveDisable(w) ==
    /\ worker[w].pc = "scan"
    /\ scans[TaskOf(w)].scan_type = "full"
    /\ zap' = [zap EXCEPT !.ascan_rules = FALSE]
    /\ worker' = [worker EXCEPT ![w].pc = "enabling"]
    /\ UNCHANGED <<scans, alerts, queue, revoked, client, ncancel, hist>>

\* zap_scanner.py 370-403: zap.ascan.enable_scanners for each rule; a call
\* that raises is logged and skipped.
ConfigureActiveEnable(w) ==
    /\ worker[w].pc = "enabling"
    /\ \/ zap' = [zap EXCEPT !.ascan_rules = TRUE]
       \/ UNCHANGED zap
    /\ worker' = [worker EXCEPT ![w].pc = "configured"]
    /\ UNCHANGED <<scans, alerts, queue, revoked, client, ncancel, hist>>

\* zap_scanner.py 447-467 / 571-610: start the spider, access the
\* target, which leaves a message for the passive scanner, and for a Full
\* scan start the active scan.
StartScans(w) ==
    /\ worker[w].pc = "configured"
    /\ LET i == TaskOf(w)
       IN zap' = [zap EXCEPT !.spider[i] = "running",
                             !.records[i] = 1,
                             !.ascan[i] = IF scans[i].scan_type = "full"
                                          THEN "running" ELSE @]
    /\ worker' = [worker EXCEPT ![w].pc = "poll"]
    /\ UNCHANGED <<scans, alerts, queue, revoked, client, ncancel, hist>>

\* An engine call before the loop raises: start_zap_instance returns False
\* (436 / 560), the policy configuration (408) or a start call fails.
EngineFails(w) ==
    /\ worker[w].pc \in {"scan", "enabling", "configured"}
    /\ Raise(w, "engine error")
    /\ UNCHANGED <<scans, alerts, queue, revoked, client, ncancel, hist, zap>>

\* The engine at work, as zap.spider.status (473 / 616) sees it: the spider
\* of scan i finishes, its last pages left for the passive scanner.
EngineSpider(i) ==
    /\ zap.spider[i] = "running"
    /\ zap' = [zap EXCEPT !.spider[i] = "done",
                          !.records[i] = Min(@ + 1, MaxRecords)]
    /\ UNCHANGED <<scans, alerts, queue, revoked, worker, client, ncancel, hist>>

\* As zap.pscan.records_to_scan (486 / 645) sees it: the passive scanner
\* takes a message of scan i's traffic and raises an alert on its URL.
EnginePassive(i) ==
    /\ zap.records[i] > 0
    /\ zap' = [zap EXCEPT !.records[i] = @ - 1,
                          !.alerts = @ \cup {[url |-> scans[i].target_url,
                                              scan |-> i]}]
    /\ UNCHANGED <<scans, alerts, queue, revoked, worker, client, ncancel, hist>>

\* As zap.ascan.status (664) sees it: the active scan of scan i finishes.
EngineActive(i) ==
    /\ zap.ascan[i] = "running"
    /\ zap' = [zap EXCEPT !.ascan[i] = "done"]
    /\ UNCHANGED <<scans, alerts, queue, revoked, worker, client, ncancel, hist>>

\* zap_scanner.py 469-516 on what the engine answers; a spider timeout
\* calls zap.spider.stop (482), the passive timeout (505-507) only leaves
\* the loop.  The timeouts that fired are kept in hist.
EngineBasicTick(w) ==
    /\ worker[w].pc = "poll"
    /\ scans[TaskOf(w)].scan_type = "basic"
    /\ LET i == TaskOf(w)
           spider_progress == IF zap.spider[i] = "done" THEN 100 ELSE 50
       IN \E spider_timeout \in BOOLEAN, passive_timeout \in BOOLEAN :
             LET spider_timed == SpiderTimedOut(worker[w].spider_done,
                                                spider_progress, spider_timeout)
                 spider_done == \/ worker[w].spider_done
                                \/ spider_progress >= 100
                                \/ spider_timed
                 passive_timed == /\ ~BasicCompleted(spider_done, RecordsToScan)
                                  /\ spider_done /\ passive_timeout
             IN /\ BasicPoll(w, spider_progress, RecordsToScan, spider_timeout,
                             passive_timeout)
                /\ zap' = [zap EXCEPT !.spider[i] =
                             IF spider_timed THEN "stopped" ELSE @]
                /\ hist' = [Ticked(i) EXCEPT ![i].timedOut =
                               @ \cup (IF spider_timed THEN {"spider"} ELSE {})
                                 \cup (IF passive_timed THEN {"passive"} ELSE {})]
    /\ UNCHANGED <<scans, alerts, queue, revoked, client, ncancel>>

\* zap_scanner.py 612-718 on what the engine answers; a spider timeout calls
\* zap.spider.stop (625), the overall timeout zap.ascan.stop (684).
EngineFullTick(w) ==
    /\ worker[w].pc = "poll"
    /\ scans[TaskOf(w)].scan_type = "full"
    /\ LET i == TaskOf(w)
           spider_progress == IF zap.spider[i] = "done" THEN 100 ELSE 50
           active_progress == IF zap.ascan[i] = "done" THEN 100 ELSE 50
       IN \E spider_timeout \in BOOLEAN, active_timeout \in BOOLEAN :
             LET spider_timed == SpiderTimedOut(worker[w].spider_done,
                                                spider_progress, spider_timeout)
                 spider_done == \/ worker[w].spider_done
                                \/ spider_progress >= 100
                                \/ spider_timed
                 passive_done == \/ worker[w].passive_done
                                 \/ (RecordsToScan = 0 /\ spider_done)
                 completed == spider_done /\ passive_done /\ active_progress >= 100
                 active_timed == ~completed /\ active_timeout
             IN /\ FullPoll(w, spider_progress, RecordsToScan, active_progress,
                            spider_timeout, active_timeout)
                /\ zap' = [zap EXCEPT
                             !.spider[i] = IF spider_timed THEN "stopped" ELSE @,
                             !.ascan[i] =
                                 IF active_timed /\ active_progress < 100
                                 THEN "stopped" ELSE @]
                /\ hist' = [Ticked(i) EXCEPT ![i].timedOut =
                               @ \cup (IF spider_timed THEN {"spider"} ELSE {})
                                 \cup (IF active_timed THEN {"active"} ELSE {})]
    /\ UNCHANGED <<scans, alerts, queue, revoked, client, ncancel>>

\* zap_scanner.py 524 / 726 and tasks/scan_tasks.py 102-106: get_alerts for
\* the target URL (an engine error there gives []), then _process_alerts
\* and the commit.
FetchAlerts(w) ==
    /\ worker[w].pc = "process_alerts"
    /\ LET i == TaskOf(w)
           mine == AlertsFor(scans[i].target_url)
       IN \/ /\ StoreAlerts(w, [k \in 1..Cardinality(mine) |-> "3"])
             /\ hist' = [hist EXCEPT ![i].origins = {a.scan : a \in mine}]
          \/ /\ StoreAlerts(w, <<>>)
             /\ UNCHANGED hist
          \/ /\ Raise(w, "storage error")
             /\ UNCHANGED <<scans, alerts, hist>>
    /\ UNCHANGED <<queue, revoked, client, ncancel, zap>>

\* ------------------------------------------------ cancel
\* crud/scan.py 283-311: cancel_scan_crud, accepted for PENDING / IN_PROGRESS.
InDiscovery(i) ==
    \E w \in Workers : /\ Running(w, "run_scan") /\ TaskOf(w) = i
                       /\ worker[w].pc = "poll" /\ ~worker[w].spider_done

CancelScanCrud(user_id, i) ==
    /\ i \in ScanIds
    /\ Present(i)
    /\ scans[i].user_id = user_id
    /\ scans[i].status \in ActiveStatus
    /\ ncancel < MaxCancels
    /\ queue' = Append(queue, [name |-> "cancel_scan", scan_id |-> i])
    /\ ncancel' = ncancel + 1
    /\ hist' = [hist EXCEPT
            ![i].cancelPending = @ \/ scans[i].status = "pending",
            ![i].cancelRunning = @ \/ scans[i].status = "in_progress",
            ![i].cancelDiscovery = @ \/ InDiscovery(i)]
    /\ UNCHANGED <<scans, alerts, revoked, worker, client, zap>>

\* tasks/scan_tasks.py 247-263: load the row, refuse a terminal status,
\* revoke the run task when its id is recorded.
CancelTaskStart(w) ==
    /\ Free(w)
    /\ queue # <<>>
    /\ Head(queue).name = "cancel_scan"
    /\ queue' = Tail(queue)
    /\ LET i == Head(queue).scan_id
       IN IF ~Present(i) \/ scans[i].status \notin ActiveStatus
          THEN UNCHANGED <<worker, revoked>>      \* not found, not_cancellable
          ELSE /\ worker' = [worker EXCEPT ![w] =
                    [IdleWorker EXCEPT !.pc = "cancel_commit",
                                       !.name = "cancel_scan", !.scan_id = i]]
               /\ revoked' = IF scans[i].celery_task_id # NoTask
                             THEN revoked \cup {scans[i].celery_task_id}
                             ELSE revoked
    /\ UNCHANGED <<scans, alerts, client, ncancel, hist, zap>>

\* tasks/scan_tasks.py 265-271: the CANCELLED write and its commit.
Cancelled(row) ==
    [row EXCEPT !.status = "cancelled", !.completed_at = TRUE,
                !.error_message = "Scan cancelled by user"]

CancelTaskCommit(w) ==
    /\ worker[w].pc = "cancel_commit"
    /\ IF Present(TaskOf(w))
       THEN scans' = [scans EXCEPT ![TaskOf(w)] = Cancelled(@)]
       ELSE UNCHANGED scans                       \* the UPDATE finds no row
    /\ EndTask(w)
    /\ UNCHANGED <<alerts, queue, revoked, client, ncancel, hist, zap>>

\* ------------------------------------------------ get_scan_by_id_crud
\* The row is selected by its id alone.
GetScanByIdAnyOwner(user_id, i) == Present(i)

\* crud/scan.py 105-121: SELECT ... WHERE id = :i AND user_id = :user_id
\* returns the row (TRUE) or None (FALSE).
GetScanByIdCrud(user_id, i) == Present(i) /\ scans[i].user_id = user_id

\* The answer to a request of user_id for scan i.
Answered(user_id, i, status_code) ==
    [Returned(user_id, status_code) EXCEPT !.scan_id = i]

\* crud/scan.py 96-129 as a request: the scan (200 here) or None (404 here).
GetScan(c, user_id, i) ==
    /\ client[c].pc = "idle"
    /\ i \in ScanIds
    /\ client' = [client EXCEPT ![c] =
          Answered(user_id, i, IF GetScanByIdCrud(user_id, i) THEN 200 ELSE 404)]
    /\ UNCHANGED <<scans, alerts, queue, revoked, worker, ncancel, hist, zap>>

\* crud/scan.py 282-319: cancel_scan_crud with its answers: 404 for no row
\* of the caller, 400 for a terminal status, else the cancel task is queued
\* (200) or apply_async raises (500).
CancelScanRequest(c, user_id, i) ==
    /\ client[c].pc = "idle"
    /\ i \in ScanIds
    /\ IF ~GetScanByIdCrud(user_id, i)
       THEN /\ client' = [client EXCEPT ![c] = Answered(user_id, i, 404)]
            /\ UNCHANGED <<queue, ncancel, hist>>
       ELSE IF scans[i].status \notin ActiveStatus
       THEN /\ client' = [client EXCEPT ![c] = Answered(user_id, i, 400)]
            /\ UNCHANGED <<queue, ncancel, hist>>
       ELSE \/ /\ ncancel < MaxCancels
               /\ queue' = Append(queue, [name |-> "cancel_scan", scan_id |-> i])
               /\ ncancel' = ncancel + 1
               /\ hist' = [hist EXCEPT
                     ![i].cancelPending = @ \/ scans[i].status = "pending",
                     ![i].cancelRunning = @ \/ scans[i].status = "in_progress"]
               /\ client' = [client EXCEPT ![c] = Answered(user_id, i, 200)]
            \/ /\ client' = [client EXCEPT ![c] = Answered(user_id, i, 500)]
               /\ UNCHANGED <<queue, ncancel, hist>>
    /\ UNCHANGED <<scans, alerts, revoked, worker, zap>>

\* ------------------------------------------------ delete_scan_crud
\* crud/scan.py 231-249: load the row of the owner, refuse IN_PROGRESS.
DeleteSelect(c, user_id, i) ==
    /\ client[c].pc = "idle"
    /\ i \in ScanIds
    /\ client' = [client EXCEPT ![c] =
          IF ~GetScanByIdCrud(user_id, i)
          THEN Returned(user_id, 404)
          ELSE IF scans[i].status = "in_progress"
          THEN Returned(user_id, 400)
          ELSE [IdleClient EXCEPT !.pc = "deleting", !.user_id = user_id,
                                  !.scan_type = scans[i].scan_type, !.scan_id = i]]
    /\ UNCHANGED <<scans, alerts, queue, revoked, worker, ncancel, hist, zap>>

\* crud/scan.py 251-252: session.delete(scan) and the commit: DELETE FROM
\* scans WHERE id = :i, the scan_alerts rows going with it.
DeleteCommit(c) ==
    /\ client[c].pc = "deleting"
    /\ LET i == client[c].scan_id
       IN \/ /\ Present(i)
             /\ scans' = [scans EXCEPT ![i].deleted = TRUE]
             /\ alerts' = [alerts EXCEPT ![i] = <<>>]
             /\ client' = [client EXCEPT ![c] = Returned(client[c].user_id, 200)]
          \/ \* the commit raises (264-269): nothing is deleted
             /\ InternalError(c)
             /\ UNCHANGED <<scans, alerts>>
    /\ UNCHANGED <<queue, revoked, worker, ncancel, hist, zap>>

\* ------------------------------------------------ update_scan_crud
\* schemas/scan.py 32-36: the ScanUpdate bodies tried; progress_percentage
\* is validated to 0..100.
UpdateData ==
    [status : {NULL, "pending", "completed"},
     progress_percentage : {NoProgress, 0, 50},
     current_step : {NULL, "Spidering"},
     error_message : {NULL, "note"}]

\* crud/scan.py 192-200: the attributes set on the loaded row.  An attribute
\* set to the value it was loaded with is not part of the UPDATE.
Changes(row, data) ==
    LET given == {f \in {"status", "current_step", "error_message"} : data[f] # NULL}
                 \cup {f \in {"progress_percentage"} : data[f] # NoProgress}
    IN [f \in {g \in given : data[g] # row[g]} |-> data[f]]

\* crud/scan.py 183-200: load the row of the owner and set the attributes.
UpdateSelect(c, user_id, i, data) ==
    /\ client[c].pc = "idle"
    /\ i \in ScanIds
    /\ client' = [client EXCEPT ![c] =
          IF ~Present(i) \/ scans[i].user_id # user_id
          THEN Returned(user_id, 404)
          ELSE [IdleClient EXCEPT !.pc = "updating", !.user_id = user_id,
                                  !.scan_type = scans[i].scan_type, !.scan_id = i,
                                  !.changes = Changes(scans[i], data)]]
    /\ UNCHANGED <<scans, alerts, queue, revoked, worker, ncancel, hist, zap>>

\* crud/scan.py 202-204: the commit, UPDATE scans SET <changes> WHERE id = :i.
UpdateCommit(c) ==
    /\ client[c].pc = "updating"
    /\ LET i == client[c].scan_id
           changes == client[c].changes
       IN \/ /\ Present(i)
             /\ scans' = [scans EXCEPT ![i] =
                   [f \in DOMAIN @ |-> IF f \in DOMAIN changes THEN changes[f] ELSE @[f]]]
             /\ client' = [client EXCEPT ![c] = Returned(client[c].user_id, 200)]
          \/ \* the commit raises (215-220): nothing is written
             /\ InternalError(c)
             /\ UNCHANGED scans
    /\ UNCHANGED <<alerts, queue, revoked, worker, ncancel, hist, zap>>

\* ------------------------------------------------ specifications
WorkerStep(w) ==
    \/ DiscardRevoked(w)
    \/ RunStart(w)
    \/ ScanBegin(w)
    \/ PollBasic(w)
    \/ PollFull(w)
    \/ EngineRaise(w)
    \/ ProcessAlerts(w)
    \/ Complete(w)
    \/ HandleFailure(w)
    \/ Terminate(w)
    \/ CancelTaskStart(w)
    \/ CancelTaskCommit(w)

CreateStep(c) ==
    \/ \E u \in Users, t \in ScanType : CreateCount(c, u, t)
    \/ CreateInsert(c)
    \/ CreateEnqueue(c)
    \/ CreateSetTaskId(c)

\* The scan lifecycle: admission, the worker pool and cancellation.
Next ==
    \/ \E c \in Clients :
          (Len(scans) < MaxScans \/ client[c].pc \in {"inserted", "queued"})
          /\ CreateStep(c)
    \/ \E w \in Workers : WorkerStep(w)
    \/ \E u \in Users, i \in ScanIds : CancelScanCrud(u, i)

Spec == Init /\ [][Next]_vars

\* Admission alone: concurrent create_scan_crud calls up to the quota.
NextQuota ==
    \E c \in Clients :
        (Len(scans) < MaxQuotaScans \/ client[c].pc \in {"inserted", "queued"})
        /\ CreateStep(c)

SpecQuota == InitQuota /\ [][NextQuota]_vars

\* Admission with the submissions processed one after another: a request
\* starts only when no other create_scan_crud call is in flight.
NextSerial ==
    \E c \in Clients :
        /\ \/ client[c].pc # "idle"
           \/ /\ \A d \in Clients : client[d].pc = "idle"
              /\ Len(scans) < MaxQuotaScans
        /\ CreateStep(c)

SpecSerial == InitQuota /\ [][NextSerial]_vars

\* Deletion: the lifecycle of a scan with delete_scan_crud calls.
NextDelete ==
    \/ \E c \in Clients :
          (Len(scans) < MaxDeleteScans \/ client[c].pc \in {"inserted", "queued"})
          /\ CreateStep(c)
    \/ \E w \in Workers : WorkerStep(w)
    \/ \E u \in Users, i \in ScanIds : CancelScanCrud(u, i)
    \/ \E c \in Clients, u \in Users, i \in ScanIds : DeleteSelect(c, u, i)
    \/ \E c \in Clients : DeleteCommit(c)

SpecDelete == Init /\ [][NextDelete]_vars

\* Update: the lifecycle of a scan with update_scan_crud calls.
NextUpdate ==
    \/ \E c \in Clients :
          (Len(scans) < MaxUpdateScans \/ client[c].pc \in {"inserted", "queued"})
          /\ CreateStep(c)
    \/ \E w \in Workers : WorkerStep(w)
    \/ \E u \in Users, i \in ScanIds : CancelScanCrud(u, i)
    \/ \E c \in Clients, u \in Users, i \in ScanIds, data \in UpdateData :
          UpdateSelect(c, u, i, data)
    \/ \E c \in Clients : UpdateCommit(c)

SpecUpdate == Init /\ [][NextUpdate]_vars

\* Ingestion alone: a scan whose run_scan task has left the polling loop
\* with a raw alert list of any content up to MaxRawAlerts entries.
RunningScan(user_id, scan_type, task_id) ==
    [NewScan(user_id, scan_type) EXCEPT !.status = "in_progress",
                                        !.started_at = TRUE,
                                        !.celery_task_id = task_id]

AtProcessAlerts(i) ==
    [IdleWorker EXCEPT !.pc = "process_alerts", !.name = "run_scan", !.scan_id = i,
                       !.spider_done = TRUE, !.passive_done = TRUE]

InitIngest ==
    /\ \E u \in Users, t \in ScanType : scans = <<RunningScan(u, t, 1)>>
    /\ alerts = <<(<<>>)>>
    /\ queue = <<>>
    /\ revoked = {}
    /\ worker = [w \in Workers |-> IF w = 1 THEN AtProcessAlerts(1) ELSE IdleWorker]
    /\ client = [c \in 1..NumClients |-> IdleClient]
    /\ ncancel = 0
    /\ \E found \in SeqsUpTo(RawRisks, MaxRawAlerts) :
          hist = <<[NewHist EXCEPT !.found = found]>>
    /\ zap = NoEngine

NextIngest == \E w \in Workers : ProcessGivenAlerts(w)

SpecIngest == InitIngest /\ [][NextIngest]_vars

\* One scan from the start of its polling loop, after the reports of 0 and 5
\* (zap_scanner.py 443-449 / 567-573), with every sample sequence.
AtPoll(i) == [IdleWorker EXCEPT !.pc = "poll", !.name = "run_scan", !.scan_id = i]

InitScan ==
    /\ \E u \in Users, t \in ScanType : scans = <<RunningScan(u, t, 1)>>
    /\ alerts = <<(<<>>)>>
    /\ queue = <<>>
    /\ revoked = {}
    /\ worker = [w \in Workers |-> IF w = 1 THEN AtPoll(1) ELSE IdleWorker]
    /\ client = [c \in 1..NumClients |-> IdleClient]
    /\ ncancel = 0
    /\ hist = <<[NewHist EXCEPT !.reports = <<0, 5>>]>>
    /\ zap = NoEngine

NextScan ==
    \E w \in Workers :
        \/ BasicTick(w)
        \/ FullTick(w)
        \/ EngineRaise(w)
        \/ ProcessAlerts(w)
        \/ Complete(w)
        \/ HandleFailure(w)

SpecScan == InitScan /\ [][NextScan]_vars

\* The engine followed: the first n worker processes each run a scan that
\* is IN_PROGRESS and about to configure the engine, each scan of either
\* type on either target.
EngineInit(n) ==
    /\ \E types \in [1..n -> ScanType], urls \in [1..n -> Targets], u \in Users :
          scans = [i \in 1..n |->
                      [RunningScan(u, types[i], i) EXCEPT !.target_url = urls[i]]]
    /\ alerts = [i \in 1..n |-> <<>>]
    /\ queue = <<>>
    /\ revoked = {}
    /\ worker = [w \in Workers |->
                    IF w <= n THEN [AtPoll(w) EXCEPT !.pc = "scan"] ELSE IdleWorker]
    /\ client = [c \in 1..NumClients |-> IdleClient]
    /\ ncancel = 0
    /\ hist = [i \in 1..n |-> [NewHist EXCEPT !.enqueued = 1, !.started = 1]]
    /\ zap = [ascan_rules |-> TRUE,
              spider |-> [i \in 1..n |-> "none"],
              ascan |-> [i \in 1..n |-> "none"],
              records |-> [i \in 1..n |-> 0],
              alerts |-> {}]

EngineStep(w) ==
    \/ ConfigurePassivePolicy(w)
    \/ ConfigureActiveDisable(w)
    \/ ConfigureActiveEnable(w)
    \/ StartScans(w)
    \/ EngineFails(w)
    \/ EngineBasicTick(w)
    \/ EngineFullTick(w)
    \/ EngineRaise(w)
    \/ FetchAlerts(w)
    \/ Complete(w)
    \/ HandleFailure(w)

EngineWork(i) ==
    \/ EngineSpider(i)
    \/ EnginePassive(i)
    \/ EngineActive(i)

\* The engine shared: every worker process runs a scan.
InitEngine == EngineInit(NumWorkers)

NextEngine ==
    \/ \E w \in Workers : EngineStep(w)
    \/ \E i \in ScanIds : EngineWork(i)

SpecEngine == InitEngine /\ [][NextEngine]_vars

\* Cancellation with the engine followed: one scan running, a process free
\* for the cancel task.
InitStop == EngineInit(1)

NextStop ==
    \/ \E w \in Workers :
          \/ EngineStep(w)
          \/ Terminate(w)
          \/ CancelTaskStart(w)
          \/ CancelTaskCommit(w)
    \/ \E i \in ScanIds : EngineWork(i)
    \/ \E u \in Users, i \in ScanIds : CancelScanCrud(u, i)

SpecStop == InitStop /\ [][NextStop]_vars

\* The phases of one scan on the engine, nothing else running.
InitPhases == EngineInit(1)

NextPhases ==
    \/ \E w \in Workers : EngineStep(w)
    \/ \E i \in ScanIds : EngineWork(i)

SpecPhases == InitPhases /\ [][NextPhases]_vars

\* ---- requests of owners and of another caller
\* The owners and one caller who owns no scan.
Callers == 1..(NumUsers + 1)

\* One row of an owner in any status, or deleted; a COMPLETED row has an
\* alert.
InitOwners ==
    /\ \E u \in Users, t \in ScanType, st \in ScanStatus, gone \in BOOLEAN :
          /\ scans = <<[NewScan(u, t) EXCEPT
                          !.status = st,
                          !.celery_task_id = 1,
                          !.started_at = st # "pending",
                          !.completed_at = st \in TerminalStatus,
                          !.deleted = gone]>>
          /\ alerts = <<IF st = "completed" /\ ~gone
                        THEN AlertObjects(<<"3">>) ELSE <<>> >>
    /\ queue = <<>>
    /\ revoked = {}
    /\ worker = [w \in Workers |-> IdleWorker]
    /\ client = [c \in 1..NumClients |-> IdleClient]
    /\ ncancel = 0
    /\ hist = <<NewHist>>
    /\ zap = NoEngine

NextOwners ==
    \/ \E c \in Clients, u \in Callers, i \in ScanIds : GetScan(c, u, i)
    \/ \E c \in Clients, u \in Callers, i \in ScanIds : CancelScanRequest(c, u, i)
    \/ \E c \in Clients, u \in Callers, i \in ScanIds : DeleteSelect(c, u, i)
    \/ \E c \in Clients : DeleteCommit(c)

SpecOwners == InitOwners /\ [][NextOwners]_vars

\* ---- admission on a drawn table
\* A row of the table: a scan of target "b" in the given status.
TableRow(user_id, status, gone) ==
    [NewScan(user_id, "basic") EXCEPT
        !.target_url = "b", !.status = status, !.celery_task_id = 1,
        !.started_at = status # "pending",
        !.completed_at = status \in TerminalStatus, !.deleted = gone]

\* The table: active rows of the owner, the first pending of them PENDING
\* and the others IN_PROGRESS, then terminal rows of the owner, then
\* a deleted row of the owner, then other IN_PROGRESS rows of another owner.
Table(owner, active, pending, terminal, gone, other) ==
    [k \in 1..active |->
        TableRow(owner, IF k <= pending THEN "pending" ELSE "in_progress", FALSE)]
    \o SubSeq(<<TableRow(owner, "completed", FALSE),
                TableRow(owner, "failed", FALSE),
                TableRow(owner, "cancelled", FALSE)>>, 1, terminal)
    \o (IF gone THEN <<TableRow(owner, "pending", TRUE)>> ELSE <<>>)
    \o [k \in 1..other |-> TableRow(NumUsers + 1, "in_progress", FALSE)]

\* The rows created by create_scan_crud on top of the table.
NewScans == {i \in ScanIds : scans[i].target_url = "a"}

\* The tables with no active row of the owner, one fewer than
\* MAX_ACTIVE_SCANS, or MAX_ACTIVE_SCANS, all PENDING or all IN_PROGRESS, no
\* terminal row or one of each status, and none or MAX_ACTIVE_SCANS rows of
\* the other owner; a run task is about to complete the owner's last
\* IN_PROGRESS row.
InitTable ==
    /\ \E u \in Users, active \in {0, MAX_ACTIVE_SCANS - 1, MAX_ACTIVE_SCANS},
          terminal \in {0, 3}, gone \in BOOLEAN, other \in {0, MAX_ACTIVE_SCANS} :
          \E pending \in {0, active} :
             /\ scans = Table(u, active, pending, terminal, gone, other)
             /\ worker = [w \in Workers |->
                             IF w = 1 /\ pending < active
                             THEN [AtProcessAlerts(active) EXCEPT !.pc = "complete"]
                             ELSE IdleWorker]
    /\ alerts = [i \in 1..Len(scans) |-> <<>>]
    /\ hist = [i \in 1..Len(scans) |-> NewHist]
    /\ queue = <<>>
    /\ revoked = {}
    /\ client = [c \in 1..NumClients |-> IdleClient]
    /\ ncancel = 0
    /\ zap = NoEngine

\* create_scan_crud and delete_scan_crud calls of both owners, and the run
\* task's completion or failure.
NextTable ==
    \/ \E c \in Clients, u \in Callers, t \in ScanType :
          /\ Cardinality(NewScans) < MaxNewScans
          /\ CreateCount(c, u, t)
    \/ \E c \in Clients : CreateInsert(c)
    \/ \E c \in Clients : CreateEnqueue(c)
    \/ \E c \in Clients : CreateSetTaskId(c)
    \/ \E c \in Clients, u \in Callers, i \in ScanIds :
          /\ Cardinality({k \in ScanIds : scans[k].deleted}) <= MaxDeleted
          /\ DeleteSelect(c, u, i)
    \/ \E c \in Clients : DeleteCommit(c)
    \/ \E w \in Workers : Complete(w)
    \/ \E w \in Workers : HandleFailure(w)

SpecTable == InitTable /\ [][NextTable]_vars

\* ---- the reports of the loops from any point of them
\* The backlog first seen, where one was: none, as small as the samples, or
\* large beside them (a passive share of 99 on a backlog still positive).
InitialSamples == {0, 2, 400}

\* One scan of either type inside its loop after the reports of 0 and 5,
\* with any values of the loop's variables: passive_done is set only with
\* spider_done (zap_scanner.py 657-660).
InitTick ==
    /\ \E u \in Users, t \in ScanType : scans = <<RunningScan(u, t, 1)>>
    /\ alerts = <<(<<>>)>>
    /\ queue = <<>>
    /\ revoked = {}
    /\ \E spider_done \in BOOLEAN, passive_done \in BOOLEAN,
          initial \in InitialSamples :
          /\ passive_done => spider_done
          /\ worker = [w \in Workers |->
                IF w = 1
                THEN [AtPoll(1) EXCEPT !.spider_done = spider_done,
                                       !.passive_done = passive_done,
                                       !.initial_passive_records = initial]
                ELSE IdleWorker]
    /\ client = [c \in 1..NumClients |-> IdleClient]
    /\ ncancel = 0
    /\ hist = <<[NewHist EXCEPT !.reports = <<0, 5>>]>>
    /\ zap = NoEngine

NextTick ==
    \E w \in Workers :
        \/ BasicTick(w)
        \/ FullTick(w)

SpecTick == InitTick /\ [][NextTick]_vars

\* ---- the polling loops on a clock
\* The comparison never succeeds.
ExpiredNever(elapsed, timeout) == FALSE

\* zap_scanner.py 480, 505 / 623, 682: elapsed > spider_timeout,
\* elapsed > passive_timeout, elapsed > active_timeout.
Expired(elapsed, timeout) == elapsed > timeout

\* The time after which the loop of scan i has to be left: the later of the
\* spider and passive timeouts (480, 505), the active timeout (682).
Ceiling(i) ==
    IF scans[i].scan_type = "basic"
    THEN Max(hist[i].clock.spider_timeout, hist[i].clock.passive_timeout)
    ELSE hist[i].clock.active_timeout

\* zap_scanner.py 469-516: one iteration of the Basic loop; elapsed =
\* time.time() - start_time (470) is later than at the tick before, and
\* every engine call returns a value.
ClockBasicTick(w) ==
    /\ worker[w].pc = "poll"
    /\ scans[TaskOf(w)].scan_type = "basic"
    /\ LET i == TaskOf(w)
           clock == hist[i].clock
       IN /\ clock.elapsed <= MaxTimeout + MaxAdvance
          /\ \E spider_progress \in SpiderSamples,
                passive_remaining \in BacklogSamples, d \in 1..MaxAdvance :
                LET elapsed == clock.elapsed + d
                IN /\ BasicPoll(w, spider_progress, passive_remaining,
                                Expired(elapsed, clock.spider_timeout),
                                Expired(elapsed, clock.passive_timeout))
                   /\ hist' = [hist EXCEPT ![i].clock.elapsed = elapsed]
    /\ UNCHANGED <<scans, alerts, queue, revoked, client, ncancel, zap>>

\* zap_scanner.py 612-718: one iteration of the Full loop, likewise.
ClockFullTick(w) ==
    /\ worker[w].pc = "poll"
    /\ scans[TaskOf(w)].scan_type = "full"
    /\ LET i == TaskOf(w)
           clock == hist[i].clock
       IN /\ clock.elapsed <= MaxTimeout + MaxAdvance
          /\ \E spider_progress \in SpiderSamples,
                passive_remaining \in BacklogSamples,
                active_status \in ActiveSamples \cup {Unparsable},
                d \in 1..MaxAdvance :
                LET elapsed == clock.elapsed + d
                IN /\ FullPoll(w, spider_progress, passive_remaining,
                               ActiveProgress(active_status),
                               Expired(elapsed, clock.spider_timeout),
                               Expired(elapsed, clock.active_timeout))
                   /\ hist' = [hist EXCEPT ![i].clock.elapsed = elapsed]
    /\ UNCHANGED <<scans, alerts, queue, revoked, client, ncancel, zap>>

\* One scan of either type at the start of its loop, with every choice of
\* ZAP_SPIDER_TIMEOUT, ZAP_PASSIVE_SCAN_TIMEOUT (463-464 / 603-604) and
\* active timeout in clock units.
InitClock ==
    /\ \E u \in Users, t \in ScanType : scans = <<RunningScan(u, t, 1)>>
    /\ alerts = <<(<<>>)>>
    /\ queue = <<>>
    /\ revoked = {}
    /\ worker = [w \in Workers |-> IF w = 1 THEN AtPoll(1) ELSE IdleWorker]
    /\ client = [c \in 1..NumClients |-> IdleClient]
    /\ ncancel = 0
    /\ \E st \in 1..MaxTimeout, pt \in 1..MaxTimeout, at \in 1..MaxTimeout :
          hist = <<[NewHist EXCEPT
                      !.clock = [elapsed |-> 0, spider_timeout |-> st,
                                 passive_timeout |-> pt, active_timeout |-> at]]>>
    /\ zap = NoEngine

NextClock ==
    \E w \in Workers :
        \/ ClockBasicTick(w)
        \/ ClockFullTick(w)
        \/ ProcessAlerts(w)
        \/ Complete(w)
        \/ HandleFailure(w)

SpecClock == InitClock /\ [][NextClock]_vars

\* Basic scans undisturbed: each submitted by an owner with no active scan,
\* no call of the database, the broker or the engine raising, no cancel.
\* The loop is left after MaxPollTicks reports at the latest, and a step
\* that can be taken is taken in the end: the request handler runs on, the
\* pool hands a queued message to a free process, the task runs on.
NextHappy ==
    \/ \E c \in Clients, u \in Users :
          /\ Len(scans) < MaxHappyScans
          /\ ActiveScansCount(u) = 0
          /\ CreateCount(c, u, "basic")
    \/ \E c \in Clients : CreateInsert(c) /\ client'[c].pc = "inserted"
    \/ \E c \in Clients : CreateEnqueue(c) /\ client'[c].pc = "queued"
    \/ \E c \in Clients : CreateSetTaskId(c) /\ client'[c].response = 201
    \/ \E w \in Workers : RunStart(w) /\ worker'[w].pc = "scan"
    \/ \E w \in Workers : ScanBegin(w) /\ worker'[w].pc = "poll"
    \/ \E w \in Workers : BasicTick(w)
    \/ \E w \in Workers : ProcessAlerts(w) /\ worker'[w].pc = "complete"
    \/ \E w \in Workers : Complete(w) /\ worker'[w].pc = "idle"

SpecHappy == Init /\ [][NextHappy]_vars /\ WF_vars(NextHappy)

\* The combined progress of one tick on its own: a scan of either type in
\* its loop, with the tick's phase percentages drawn from PercentSamples (on
\* which the float expressions of zap_scanner.py 512 and 691-710 have the
\* integer part of the exact weighted sum) and, for a Full scan, the AJAX
\* spider off, running or done.
PercentSamples == {0, 1, 25, 50, 66, 99, 100}

\* zap_scanner.py 690: ajax_progress = 100 if ajax_spider_done else 50
AjaxProgress(ajax_spider_done) == IF ajax_spider_done THEN 100 ELSE 50

\* zap_scanner.py 691-696: int(spider * 0.15 + ajax * 0.15 + passive * 0.15
\* + active * 0.55)
AjaxCombined(spider_progress, ajax_progress, passive_progress, active_progress) ==
    (15 * spider_progress + 15 * ajax_progress + 15 * passive_progress
     + 55 * active_progress) \div 100

\* zap_scanner.py 509-514 / 687-716: the value passed to progress_callback.
CombinedProgress(scan_type, x) ==
    IF scan_type = "basic"
    THEN BasicCombined(x.spider, x.passive)
    ELSE IF x.ajax_spider_enabled
         THEN AjaxCombined(x.spider, AjaxProgress(x.ajax_spider_done),
                           x.passive, x.active)
         ELSE FullCombined(x.spider, x.passive, x.active)

InitProgress ==
    /\ \E u \in Users, t \in ScanType : scans = <<RunningScan(u, t, 1)>>
    /\ alerts = <<(<<>>)>>
    /\ queue = <<>>
    /\ revoked = {}
    /\ worker = [w \in Workers |-> IF w = 1 THEN AtPoll(1) ELSE IdleWorker]
    /\ client = [c \in 1..NumClients |-> IdleClient]
    /\ ncancel = 0
    /\ \E spider \in PercentSamples, passive \in PercentSamples,
          active \in PercentSamples, enabled \in BOOLEAN, done \in BOOLEAN :
          hist = <<[NewHist EXCEPT
                      !.reports = <<0, 5>>,
                      !.sample = [spider |-> spider, passive |-> passive,
                                  active |-> active,
                                  ajax_spider_enabled |-> enabled,
                                  ajax_spider_done |-> done]]>>
    /\ zap = NoEngine

\* The report of the tick.
ProgressTick(w) ==
    /\ worker[w].pc = "poll"
    /\ LET i == TaskOf(w)
       IN /\ Len(hist[i].reports) = 2
          /\ Report(i, CombinedProgress(scans[i].scan_type, hist[i].sample), {},
                    hist[i].sample)
    /\ UNCHANGED <<scans, alerts, queue, revoked, worker, client, ncancel, zap>>

NextProgress == \E w \in Workers : ProgressTick(w)

SpecProgress == InitProgress /\ [][NextProgress]_vars

\* ------------------------------------------------ properties
AllCountersZero(row) ==
    /\ row.total_alerts = 0
    /\ row.high_risk_count = 0
    /\ row.medium_risk_count = 0
    /\ row.low_risk_count = 0
    /\ row.info_count = 0

\* Nothing is left that will act on scan i: no message for it in the queue,
\* no worker executing a task for it, no create request about to enqueue it.
Settled(i) ==
    /\ \A k \in 1..Len(queue) : queue[k].scan_id # i
    /\ \A w \in Workers : worker[w].pc = "idle" \/ TaskOf(w) # i
    /\ \A c \in Clients : client[c].pc = "inserted" => client[c].scan_id # i

\* The run_scan task of scan i has stored the alerts and not yet completed.
Ingested(i) ==
    \E w \in Workers : /\ Running(w, "run_scan") /\ TaskOf(w) = i
                       /\ worker[w].pc = "complete"

RowsAt(i, level) == Cardinality({k \in 1..Len(alerts[i]) : alerts[i][k] = level})

\* C1: for every owner, in every reachable state, at most 5 of the owner's
\* scans are PENDING or IN_PROGRESS, also when create_scan_crud calls of the
\* same owner interleave between the count query and the insert's commit.
C1_QuotaNeverExceeded ==
    \A u \in Users : ActiveScansCount(u) <= MAX_ACTIVE_SCANS

\* C2: once a scan's status is COMPLETED, FAILED or CANCELLED no later step
\* changes it.
C2_TerminalNeverExited ==
    [][\A i \in ScanIds :
          scans[i].status \in TerminalStatus => scans'[i].status = scans[i].status]_vars

\* C3: a scan for which a cancel was accepted while PENDING is never
\* IN_PROGRESS afterwards, and is CANCELLED once nothing is left to act on it.
C3_CancelPendingNeverRuns ==
    \A i \in ScanIds :
        hist[i].cancelPending =>
            /\ scans[i].status # "in_progress"
            /\ Settled(i) => scans[i].status = "cancelled"

\* C4: a scan for which a cancel was accepted while IN_PROGRESS is CANCELLED
\* within one tick of its polling loop, however busy the workers are: once a
\* second tick has ended since the request, the status is CANCELLED.
C4_CancelledWithinOneTick ==
    \A i \in ScanIds :
        hist[i].ticks >= 2 => scans[i].status = "cancelled"

\* C5: a scan for which a cancel was accepted while its discovery phase was
\* running never has a scan_alerts row, and is CANCELLED once nothing is left
\* to act on it.
C5_CancelMidDiscovery ==
    \A i \in ScanIds :
        hist[i].cancelDiscovery =>
            /\ alerts[i] = <<>>
            /\ Settled(i) => scans[i].status = "cancelled"

\* C6: a scan is never left IN_PROGRESS: while its status is IN_PROGRESS a
\* task that will move it on is queued or executing, also after the findings
\* commit failed with a storage error.
C6_NeverStuckInProgress ==
    \A i \in ScanIds : scans[i].status = "in_progress" => ~Settled(i)

\* C7: every error raised while a scan is IN_PROGRESS leaves the scan FAILED
\* with an error message: whenever a worker that was not revoked leaves the
\* except block, the row is FAILED and its error_message is set.
C7_ErrorsBecomeFailed ==
    [][\A w \in Workers :
          (/\ worker[w].pc = "except"
           /\ worker'[w].pc # "except"
           /\ TaskOf(w) \notin revoked)
          => /\ scans'[TaskOf(w)].status = "failed"
             /\ scans'[TaskOf(w)].error_message # NULL]_vars

\* C8: a FAILED scan has no scan_alerts rows and all its counters are zero.
C8_FailedHasNoFindings ==
    \A i \in ScanIds :
        scans[i].status = "failed" =>
            alerts[i] = <<>> /\ AllCountersZero(scans[i])

C10_NoResultsBeforeCompleted ==
    \A i \in ScanIds :
        scans[i].status \in ActiveStatus =>
            alerts[i] = <<>> /\ AllCountersZero(scans[i])

\* C11: for a raw alert list of K entries with any mix of risk values,
\* _process_alerts leaves exactly K scan_alerts rows, total_alerts = K, each
\* risk counter equal to the number of rows of its level, and the four
\* counters summing to K.
C11_IngestKRows ==
    \A i \in ScanIds :
        Ingested(i) =>
            LET K == Len(hist[i].found)
            IN /\ Len(alerts[i]) = K
               /\ scans[i].total_alerts = K
               /\ scans[i].high_risk_count = RowsAt(i, "high")
               /\ scans[i].medium_risk_count = RowsAt(i, "medium")
               /\ scans[i].low_risk_count = RowsAt(i, "low")
               /\ scans[i].info_count = RowsAt(i, "informational")
               /\ scans[i].high_risk_count + scans[i].medium_risk_count
                  + scans[i].low_risk_count + scans[i].info_count = K

\* Three raw alerts of three different levels, one of them unrecognized.
C11_Witness ==
    \E i \in ScanIds :
        /\ Ingested(i)
        /\ hist[i].found = <<"High", "bogus", "1">>
        /\ scans[i].total_alerts = 3

\* C12: the risk mapping is total: "3" and "High" give HIGH, "2" and "Medium"
\* MEDIUM, "1" and "Low" LOW, "0" and "Informational" INFORMATIONAL, and every
\* other value, a missing risk key and an unrecognized string included,
\* gives INFORMATIONAL.
C12_RiskMappingTotal ==
    \A i \in ScanIds :
        Ingested(i) =>
            \A k \in 1..Len(hist[i].found) :
                LET raw == hist[i].found[k]
                    level == alerts[i][k]
                IN /\ level \in RiskLevel
                   /\ raw \in {"3", "High"} => level = "high"
                   /\ raw \in {"2", "Medium"} => level = "medium"
                   /\ raw \in {"1", "Low"} => level = "low"
                   /\ raw \notin {"3", "High", "2", "Medium", "1", "Low"}
                         => level = "informational"

\* A label, a missing risk key and an unrecognized string in one list.
C12_Witness ==
    \E i \in ScanIds :
        /\ Ingested(i)
        /\ hist[i].found = <<"Medium", "missing", "bogus">>
        /\ alerts[i] = <<"medium", "informational", "informational">>

\* C13: with submissions processed one after another, create_scan_crud
\* answers with the quota error exactly when the owner already has 5 or more
\* PENDING or IN_PROGRESS scans: a request is admitted only below 5, refused
\* with 429 only at 5, so from no active scans five are accepted and the
\* sixth is refused.
C13_SerialQuota ==
    /\ \A u \in Users : ActiveScansCount(u) <= 5
    /\ \A c \in Clients :
        /\ client[c].pc = "admitted" => ActiveScansCount(client[c].user_id) < 5
        /\ (client[c].pc = "idle" /\ client[c].response = 429)
              => ActiveScansCount(client[c].user_id) >= 5

\* Five scans of one owner are active and the owner's next request got 429.
C13_Witness ==
    \E c \in Clients :
        /\ client[c].pc = "idle"
        /\ client[c].response = 429
        /\ ActiveScansCount(client[c].user_id) = 5

\* C14: whenever create_scan_crud returns an error (429 quota, 400 invalid
\* kind, 500 internal error such as a failure to enqueue), the request has
\* inserted no scans row and enqueued no run_scan task.
C14_NoSideEffectsOnError ==
    [][\A c \in Clients :
          (/\ client'[c] # client[c]
           /\ client'[c].pc = "idle"
           /\ client'[c].response \in {400, 429, 500})
          => client[c].scan_id = 0]_vars

\* C15: a cancel is accepted only for a PENDING or IN_PROGRESS scan.  While a
\* scan is COMPLETED, FAILED or CANCELLED, cancel_scan_crud enqueues no cancel
\* task for it, and no step of a cancel task for it changes its status,
\* error_message or completed_at.
C15_TerminalNotCancellable ==
    [][\A i \in ScanIds :
          scans[i].status \in TerminalStatus =>
             /\ ~ /\ Len(queue') = Len(queue) + 1
                  /\ queue'[Len(queue')] = [name |-> "cancel_scan", scan_id |-> i]
             /\ \A w \in Workers :
                   (\/ /\ Running(w, "cancel_scan") /\ TaskOf(w) = i
                       /\ worker'[w] # worker[w]
                    \/ /\ Free(w) /\ queue # <<>> /\ queue' = Tail(queue)
                       /\ Head(queue) = [name |-> "cancel_scan", scan_id |-> i])
                   => /\ scans'[i].status = scans[i].status
                      /\ scans'[i].error_message = scans[i].error_message
                      /\ scans'[i].completed_at = scans[i].completed_at]_vars

\* C16: delete_scan_crud on an IN_PROGRESS scan is refused and leaves the row
\* and its scan_alerts rows in place: no step removes a scans row, or any of
\* its scan_alerts rows, while the row's status is IN_PROGRESS.
C16_NoDeleteInProgress ==
    [][\A i \in ScanIds :
          (Present(i) /\ scans[i].status = "in_progress")
          => /\ ~scans'[i].deleted
             /\ Len(alerts'[i]) >= Len(alerts[i])]_vars

\* C17: the stored progress_percentage of every scan stays within 0..100 and
\* no step writes a value lower than the one stored.
C17_ProgressNeverDecreases ==
    [][\A i \in ScanIds :
          /\ scans'[i].progress_percentage \in 0..100
          /\ scans'[i].progress_percentage >= scans[i].progress_percentage]_vars

\* C20: while a scan is IN_PROGRESS its status and progress_percentage are
\* written only by the worker that executes its run_scan task: every step
\* that changes one of them is a step of that worker.
C20_SingleWriter ==
    [][\A i \in ScanIds :
          (/\ Present(i)
           /\ scans[i].status = "in_progress"
           /\ \/ scans'[i].status # scans[i].status
              \/ scans'[i].progress_percentage # scans[i].progress_percentage)
          => \E w \in Workers : /\ Running(w, "run_scan")
                                /\ TaskOf(w) = i
                                /\ worker'[w] # worker[w]]_vars

\* C18: within one scan the percentages delivered through the progress
\* report (0, 5, each tick's combined value, the final 100) are
\* non-decreasing, whatever the engine samples are.
C18_ReportsNonDecreasing ==
    \A i \in ScanIds :
        \A k \in 1..(Len(hist[i].reports) - 1) :
            hist[i].reports[k] <= hist[i].reports[k + 1]

\* C19: a phase timeout is not a failure.  The step in which a timeout fires
\* raises nothing and leaves the status alone; a passive or active timeout
\* takes the worker to the fetching and storing of the alerts; and a task
\* that saw a timeout and ends without having entered the except block ends
\* with the scan COMPLETED.
C19_TimeoutIsNotFailure ==
    [][\A w \in Workers :
          Running(w, "run_scan") =>
             LET i == TaskOf(w)
             IN /\ hist'[i].timedOut # hist[i].timedOut
                     => /\ worker'[w].pc \in {"poll", "process_alerts"}
                        /\ scans'[i] = scans[i]
                /\ (hist'[i].timedOut \ hist[i].timedOut) \cap {"passive", "active"} # {}
                     => worker'[w].pc = "process_alerts"
                /\ (/\ hist[i].timedOut # {}
                    /\ worker[w].pc # "except"
                    /\ worker'[w].pc = "idle")
                     => scans'[i].status = "completed"]_vars

\* A scan whose spider and whose passive or active phase timed out is
\* COMPLETED with alerts stored.
C19_Witness ==
    \E i \in ScanIds :
        /\ scans[i].status = "completed"
        /\ "spider" \in hist[i].timedOut
        /\ hist[i].timedOut \cap {"passive", "active"} # {}
        /\ Len(alerts[i]) > 0

\* C21: every scan is sent to the queue at most once and marked IN_PROGRESS
\* at most once, and a scan whose submission is answered with 201 has been
\* sent exactly once.
C21_OneTaskOneStart ==
    [][/\ \A i \in 1..Len(scans') :
             hist'[i].enqueued <= 1 /\ hist'[i].started <= 1
       /\ \A c \in Clients :
             (client[c].pc = "queued" /\ client'[c].response = 201
              /\ client'[c].pc = "idle")
             => hist'[client[c].scan_id].enqueued = 1]_vars

\* An accepted scan that was sent once, started once and has completed.
C21_Witness ==
    \E i \in ScanIds :
        /\ scans[i].status = "completed"
        /\ scans[i].celery_task_id # NoTask
        /\ hist[i].enqueued = 1
        /\ hist[i].started = 1

\* The run_scan messages for scan i in a queue.
RunMessages(q, i) ==
    Cardinality({k \in 1..Len(q) : q[k] = [name |-> "run_scan", scan_id |-> i]})

RunAt(i, pcs) ==
    \E w \in Workers : /\ Running(w, "run_scan") /\ TaskOf(w) = i
                       /\ worker[w].pc \in pcs

\* What the engine has left to do for scan i itself.
OwnPhasesDone(i) ==
    /\ zap.spider[i] = "done"
    /\ zap.records[i] = 0
    /\ scans[i].scan_type = "full" => zap.ascan[i] = "done"

\* C23: two scans running on the same engine do not depend on each other.
\* While a Full scan is between its policy configuration and the end of its
\* loop no step changes the engine's active rules; a tick of a polling loop
\* that finds the scan's own spider done, none of its own traffic left for
\* the passive scanner and its own active scan done leaves the loop; and the
\* alerts a scan fetches were all raised by its own traffic.
C23_ScansIsolated ==
    [][/\ \A i \in ScanIds :
             (scans[i].scan_type = "full" /\ RunAt(i, {"configured", "poll"}))
             => zap'.ascan_rules = zap.ascan_rules
       /\ \A w \in Workers :
             (/\ Running(w, "run_scan")
              /\ worker[w].pc = "poll"
              /\ worker'[w] # worker[w]
              /\ OwnPhasesDone(TaskOf(w)))
             => worker'[w].pc # "poll"
       /\ \A i \in ScanIds : hist'[i].origins \subseteq {i}]_vars

C25_ErrorMessageOnlyOnFailed ==
    \A i \in ScanIds :
        scans[i].error_message # "None" => scans[i].status = "failed"

\* C26: in every reachable state completed_at is set exactly when the scan
\* is COMPLETED, FAILED or CANCELLED, started_at is set exactly when a run
\* task has made the scan IN_PROGRESS, and a scan that is CANCELLED without
\* ever having been made IN_PROGRESS has completed_at set and started_at
\* unset.
C26_Timestamps ==
    \A i \in ScanIds :
        /\ scans[i].completed_at <=>
              scans[i].status \in {"completed", "failed", "cancelled"}
        /\ scans[i].started_at <=> hist[i].started > 0
        /\ (scans[i].status = "cancelled" /\ hist[i].started = 0) =>
              (scans[i].completed_at /\ ~scans[i].started_at)

\* C27: an engine call of a poll tick that fails or returns an unparsable
\* value does not fail the scan: no step takes a run task from the polling
\* loop into the except block of _run_scan_async, where the scan is written
\* FAILED.
C27_PollErrorDoesNotFail ==
    [][\A w \in Workers :
          (Running(w, "run_scan") /\ worker[w].pc = "poll")
          => worker'[w].pc # "except"]_vars

\* C28: the engine is asked to stop the phases of a cancelled IN_PROGRESS
\* scan before or when the scan becomes CANCELLED: in every reachable state
\* neither the spider nor the active scan of a CANCELLED scan is running.
C28_CancelStopsEngine ==
    \A i \in ScanIds :
        scans[i].status = "cancelled" =>
            /\ zap.spider[i] # "running"
            /\ zap.ascan[i] # "running"

\* C29: a tick leaves the Basic loop only when discovery is done (a tick
\* has sampled the spider at 100, or the spider was stopped by its timeout)
\* and either the tick's backlog sample is zero or the passive timeout
\* fired: the loop never ends as completed on a positive backlog, and the
\* passive timeout leaves it only after discovery is done.
C29_BasicLoopExit ==
    [][\A w \in Workers :
          (/\ Running(w, "run_scan") /\ scans[TaskOf(w)].scan_type = "basic"
           /\ worker[w].pc = "poll" /\ worker'[w].pc = "process_alerts")
          => LET i == TaskOf(w)
                 sample == hist'[i].sample
             IN /\ sample.at100 \/ "spider" \in hist'[i].timedOut
                /\ sample.backlog = 0 \/ "passive" \in hist'[i].timedOut]_vars

\* A Basic loop left as completed, on a zero backlog with the spider at 100
\* and no timeout, after a tick that continued.
C29_Witness ==
    \E w \in Workers :
        /\ Running(w, "run_scan") /\ scans[TaskOf(w)].scan_type = "basic"
        /\ worker[w].pc = "process_alerts"
        /\ hist[TaskOf(w)].sample.backlog = 0 /\ hist[TaskOf(w)].sample.at100
        /\ hist[TaskOf(w)].timedOut = {}
        /\ Len(hist[TaskOf(w)].reports) >= 4

\* C30: the combined progress a tick reports is the weighted sum of the
\* tick's phase percentages rounded to the nearest integer (either one on a
\* tie): weights 40/60 for Basic, 20/20/60 for Full, 15/15/15/55 for Full
\* with the AJAX spider.
C30_CombinedIsRounded ==
    \A i \in ScanIds :
        Len(hist[i].reports) = 3 =>
            LET x == hist[i].sample
                reported == hist[i].reports[3]
                hundredths ==
                    IF scans[i].scan_type = "basic"
                    THEN 40 * x.spider + 60 * x.passive
                    ELSE IF x.ajax_spider_enabled
                         THEN 15 * x.spider + 15 * AjaxProgress(x.ajax_spider_done)
                              + 15 * x.passive + 55 * x.active
                         ELSE 20 * x.spider + 20 * x.passive + 60 * x.active
            IN /\ 2 * (100 * reported - hundredths) <= 100
               /\ 2 * (hundredths - 100 * reported) <= 100

\* C31: each phase has its own timeout, a timeout stops its phase only, and
\* the result collection starts once every phase of the scan is done or timed
\* out: a spider or an active scan is stopped only by its own timeout, and
\* when a run task leaves its loop the scan's spider and active scan are not
\* running and its backlog is empty unless the passive timeout fired.
C31_PhaseTimeouts ==
    [][/\ \A i \in ScanIds :
             /\ (zap'.spider[i] = "stopped" /\ zap.spider[i] # "stopped")
                => "spider" \in hist'[i].timedOut
             /\ (zap'.ascan[i] = "stopped" /\ zap.ascan[i] # "stopped")
                => "active" \in hist'[i].timedOut
       /\ \A w \in Workers :
             (/\ Running(w, "run_scan")
              /\ worker[w].pc = "poll" /\ worker'[w].pc = "process_alerts")
             => LET i == TaskOf(w)
                IN /\ zap'.spider[i] # "running"
                   /\ zap'.ascan[i] # "running"
                   /\ zap'.records[i] = 0 \/ "passive" \in hist'[i].timedOut]_vars

\* C32: with every engine call returning and the clock advancing at each
\* tick, the loop of a Basic or Full scan is left for the result collection
\* by the first tick that reads a time beyond the ceiling, whatever the
\* engine samples: no run task is in its loop after such a tick.
C32_LoopLeftAtCeiling ==
    /\ [][\A w \in Workers :
             (/\ Running(w, "run_scan") /\ worker[w].pc = "poll"
              /\ hist'[TaskOf(w)].clock.elapsed > Ceiling(TaskOf(w)))
             => worker'[w].pc = "process_alerts"]_vars
    /\ [](\A w \in Workers :
             (Running(w, "run_scan") /\ worker[w].pc = "poll")
             => hist[TaskOf(w)].clock.elapsed <= Ceiling(TaskOf(w)))

\* A Basic loop left by a tick beyond the ceiling, on to the result collection.
C32_Witness ==
    \E w \in Workers :
        /\ Running(w, "run_scan") /\ scans[TaskOf(w)].scan_type = "basic"
        /\ worker[w].pc = "process_alerts"
        /\ hist[TaskOf(w)].clock.elapsed > Ceiling(TaskOf(w))
        /\ hist[TaskOf(w)].clock.spider_timeout > hist[TaskOf(w)].clock.passive_timeout

\* C33: get, cancel and delete by a caller who is not the owner of the scan
\* are answered as for a scan that does not exist: not found, no cancel task
\* queued, no row of scans or scan_alerts changed, and no delete of the
\* caller left in progress.
C33_OtherOwnerIsNotFound ==
    [][\A c \in Clients, u \in Callers, i \in ScanIds :
          (/\ ~Present(i) \/ scans[i].user_id # u
           /\ \/ GetScan(c, u, i)
              \/ CancelScanRequest(c, u, i)
              \/ DeleteSelect(c, u, i))
          => /\ client'[c].pc = "idle"
             /\ client'[c].response = 404
             /\ UNCHANGED <<scans, alerts, queue>>]_vars

\* A caller who is not the owner has been answered 404 for a scan that is
\* there and active.
C33_Witness ==
    \E c \in Clients, i \in ScanIds :
        /\ client[c].response = 404
        /\ client[c].scan_id = i
        /\ Present(i) /\ scans[i].status \in ActiveStatus
        /\ scans[i].user_id # client[c].user_id

\* C34: a submission is rejected for the quota exactly when the submitting
\* owner has MAX_ACTIVE_SCANS or more rows that are PENDING or IN_PROGRESS:
\* rows of other owners, rows in a terminal status and deleted rows never
\* count, so an owner is admitted as soon as the number is below the limit.
C34_QuotaCountsOwnActive ==
    [][\A c \in Clients, u \in Callers, t \in ScanType :
          CreateCount(c, u, t) =>
             LET own == {i \in ScanIds : /\ ~scans[i].deleted
                                         /\ scans[i].user_id = u
                                         /\ scans[i].status \in {"pending", "in_progress"}}
             IN IF Cardinality(own) >= MAX_ACTIVE_SCANS
                THEN client'[c].pc = "idle" /\ client'[c].response = 429
                ELSE client'[c].pc = "admitted"]_vars

\* An owner admitted below the limit with a completed, a failed and a
\* cancelled row of their own, while another owner has MAX_ACTIVE_SCANS
\* active rows.
C34_Witness ==
    \E c \in Clients :
        /\ client[c].pc = "admitted"
        /\ ActiveScansCount(client[c].user_id) = MAX_ACTIVE_SCANS - 1
        /\ \A st \in TerminalStatus :
              \E i \in ScanIds : /\ scans[i].user_id = client[c].user_id
                                 /\ scans[i].status = st
        /\ \E u \in Callers : ActiveScansCount(u) = MAX_ACTIVE_SCANS

C36_CancelLeavesFinishedScan ==
    [][/\ (/\ Len(queue') = Len(queue) + 1
           /\ queue'[Len(queue')].name = "cancel_scan")
          => UNCHANGED <<scans, alerts>>
       /\ \A w \in Workers :
             (/\ Running(w, "cancel_scan")
              /\ worker'[w] # worker[w]
              /\ scans[TaskOf(w)].status \in {"completed", "failed"})
             => /\ scans'[TaskOf(w)] = scans[TaskOf(w)]
                /\ alerts'[TaskOf(w)] = alerts[TaskOf(w)]]_vars

\* ------------------------------------------- the scan's engine instance
\* hist[i].instance follows the ZAPScanner object of scan i: its flags, the
\* local needs_cleanup of run_basic_scan / run_full_scan, how the start
\* ended, and the callers of stop_zap_instance in call order.

\* services/zap_scanner.py 126-134: the container, if any, is stopped; an
\* error of the stop is logged and not raised.
StopZapInstance(inst, caller) ==
    [inst EXCEPT !.docker_container = FALSE, !.stops = Append(@, caller)]

\* services/zap_scanner.py 46-124: connect to a running engine, or run a
\* container and wait for it; a container that is not ready in time (118)
\* or could not be run (123) is stopped by _start_docker_zap itself.
StartZapInstance(inst) ==
    IF inst.use_docker
    THEN {[ok |-> TRUE, inst |-> [inst EXCEPT !.docker_container = TRUE]],
          [ok |-> FALSE,
           inst |-> StopZapInstance([inst EXCEPT !.docker_container = TRUE],
                                    "_start_docker_zap")],
          [ok |-> FALSE, inst |-> StopZapInstance(inst, "_start_docker_zap")]}
    ELSE {[ok |-> TRUE, inst |-> inst], [ok |-> FALSE, inst |-> inst]}

\* The finally block stops the instance whoever provided it.
FinallyAlways(inst) == StopZapInstance(inst, "finally")

\* services/zap_scanner.py 527-530, 730-733.
Finally(inst) ==
    IF inst.needs_cleanup THEN StopZapInstance(inst, "finally") ELSE inst

\* services/zap_scanner.py 432-439, 556-563: before the try block.
InstanceStart(w) ==
    /\ worker[w].pc = "scan"
    /\ LET i == TaskOf(w)
           inst == hist[i].instance
       IN IF inst.manager_initialized
          THEN /\ worker' = [worker EXCEPT ![w].pc = "poll"]
               /\ hist' = [hist EXCEPT ![i].instance.start = "pooled"]
          ELSE \E o \in StartZapInstance(inst) :
                  IF o.ok
                  THEN /\ worker' = [worker EXCEPT ![w].pc = "poll"]
                       /\ hist' = [hist EXCEPT ![i].instance =
                                      [o.inst EXCEPT !.needs_cleanup = TRUE,
                                                     !.start = "ok"]]
                  ELSE /\ Raise(w, "Failed to start ZAP instance")
                       /\ hist' = [hist EXCEPT ![i].instance =
                                      [o.inst EXCEPT !.start = "failed"]]
    /\ UNCHANGED <<scans, alerts, queue, revoked, client, ncancel, zap>>

\* One pass of the try block's loop, or a call in the try block raising;
\* the finally block runs when the pass leaves the function.
InstanceTick(w) ==
    /\ worker[w].pc = "poll"
    /\ LET i == TaskOf(w)
           clock == hist[i].clock
       IN /\ clock.elapsed <= MaxTimeout + MaxAdvance
          /\ \E spider_progress \in SpiderSamples,
                passive_remaining \in BacklogSamples,
                active_status \in ActiveSamples, d \in 1..MaxAdvance :
                LET elapsed == clock.elapsed + d
                IN /\ \/ /\ scans[i].scan_type = "basic"
                         /\ BasicPoll(w, spider_progress, passive_remaining,
                                      Expired(elapsed, clock.spider_timeout),
                                      Expired(elapsed, clock.passive_timeout))
                      \/ /\ scans[i].scan_type = "full"
                         /\ FullPoll(w, spider_progress, passive_remaining,
                                     ActiveProgress(active_status),
                                     Expired(elapsed, clock.spider_timeout),
                                     Expired(elapsed, clock.active_timeout))
                      \/ Raise(w, "engine error")
                   /\ hist' = [hist EXCEPT
                         ![i].clock.elapsed = elapsed,
                         ![i].instance = IF worker'[w].pc = "poll"
                                         THEN @ ELSE Finally(@)]
    /\ UNCHANGED <<scans, alerts, queue, revoked, client, ncancel, zap>>

InitInstance ==
    /\ \E u \in Users, t \in ScanType : scans = <<RunningScan(u, t, 1)>>
    /\ alerts = <<(<<>>)>>
    /\ queue = <<>>
    /\ revoked = {}
    /\ worker = [w \in Workers |->
                    IF w = 1 THEN [AtPoll(1) EXCEPT !.pc = "scan"] ELSE IdleWorker]
    /\ client = [c \in 1..NumClients |-> IdleClient]
    /\ ncancel = 0
    /\ \E st \in 1..MaxTimeout, pt \in 1..MaxTimeout, at \in 1..MaxTimeout,
          manager \in BOOLEAN, docker \in BOOLEAN :
          hist = <<[NewHist EXCEPT
                      !.clock = [elapsed |-> 0, spider_timeout |-> st,
                                 passive_timeout |-> pt, active_timeout |-> at],
                      !.instance.manager_initialized = manager,
                      !.instance.use_docker = docker]>>
    /\ zap = NoEngine

NextInstance ==
    \E w \in Workers :
        \/ InstanceStart(w)
        \/ InstanceTick(w)
        \/ ProcessAlerts(w)
        \/ Complete(w)
        \/ HandleFailure(w)

SpecInstance == InitInstance /\ [][NextInstance]_vars

\* run_basic_scan / run_full_scan of scan i has been left.
Exited(i) ==
    \A w \in Workers :
        Running(w, "run_scan") /\ TaskOf(w) = i => worker[w].pc \notin {"scan", "poll"}

\* C37 as stated: a scan that started its own engine instance has called
\* stop_zap_instance exactly once when the scan function is left, by return
\* or by exception, and not before; stop_zap_instance is not called at all
\* when the start failed or when the instance is manager-provided.
C37_StopOnEveryExit ==
    \A i \in ScanIds :
        LET inst == hist[i].instance
        IN /\ inst.start = "ok" => Len(inst.stops) = (IF Exited(i) THEN 1 ELSE 0)
           /\ inst.start = "failed" => inst.stops = <<>>
           /\ inst.manager_initialized => inst.stops = <<>>

\* C37 amended: a scan that started its own engine instance has had its
\* finally block call stop_zap_instance exactly once when the scan function
\* is left, by return or by exception, and nothing has called it before; the
\* scan function does not call it when the start failed (the only call then
\* is the one _start_docker_zap makes itself for a container it could not
\* bring up) and nothing calls it when the instance is manager-provided.
C37_StopOnEveryExitOfStartedInstance ==
    \A i \in ScanIds :
        LET inst == hist[i].instance
        IN /\ inst.start = "ok"
              => inst.stops = (IF Exited(i) THEN <<"finally">> ELSE <<>>)
           /\ inst.start = "failed"
              => inst.stops = (IF inst.use_docker
                               THEN <<"_start_docker_zap">> ELSE <<>>)
           /\ inst.manager_initialized => inst.stops = <<>>

\* An own instance stopped once after the try block raised, the task in its
\* except block.
C37_Witness ==
    \E w \in Workers :
        /\ worker[w].pc = "except"
        /\ hist[TaskOf(w)].instance.start = "ok"
        /\ hist[TaskOf(w)].instance.stops = <<"finally">>

\* ------------------------------------------- the final findings fetch
\* zap.core.alerts answers with the alerts found, or raises: the answer is
\* then Raised.  hist[i].fetch records which it was.
Raised == <<"engine error">>

\* The error of zap.core.alerts is passed on to the caller.
GetAlertsRaising(answer) == answer

\* services/zap_scanner.py 249-260: any error of the engine call is logged
\* and [] is returned.
GetAlerts(answer) == IF answer = Raised THEN <<>> ELSE answer

\* services/zap_scanner.py 521-526 / 723-728 and tasks/scan_tasks.py 102-106:
\* the fetch that ends the scan function, then _process_alerts and the
\* commit.
GetAlertsAndStore(w) ==
    /\ worker[w].pc = "process_alerts"
    /\ \E answer \in SeqsUpTo(EngineRisks, MaxAlerts) \cup {Raised} :
          LET alerts_found == GetAlerts(answer)
          IN /\ IF alerts_found = Raised
                THEN /\ Raise(w, "engine error")
                     /\ UNCHANGED <<scans, alerts>>
                ELSE \/ StoreAlerts(w, alerts_found)
                     \/ /\ Raise(w, "storage error")
                        /\ UNCHANGED <<scans, alerts>>
             /\ hist' = [hist EXCEPT ![TaskOf(w)].fetch =
                            IF answer = Raised THEN "error" ELSE "ok"]
    /\ UNCHANGED <<queue, revoked, client, ncancel, zap>>

InitFetch ==
    /\ \E u \in Users, t \in ScanType, url \in Targets :
          scans = <<[RunningScan(u, t, 1) EXCEPT !.target_url = url]>>
    /\ alerts = <<(<<>>)>>
    /\ queue = <<>>
    /\ revoked = {}
    /\ worker = [w \in Workers |-> IF w = 1 THEN AtProcessAlerts(1) ELSE IdleWorker]
    /\ client = [c \in 1..NumClients |-> IdleClient]
    /\ ncancel = 0
    /\ hist = <<[NewHist EXCEPT !.enqueued = 1, !.started = 1]>>
    /\ zap = NoEngine

NextFetch ==
    \E w \in Workers :
        \/ GetAlertsAndStore(w)
        \/ Complete(w)
        \/ HandleFailure(w)

SpecFetch == InitFetch /\ [][NextFetch]_vars

\* C38: when the final findings fetch fails, the step stores no alert row,
\* leaves the row as an empty result would (total_alerts and every risk
\* count 0) and raises nothing but an error of the commit; a scan that is
\* COMPLETED after a failed fetch has total_alerts = 0 and no alert row.
C38_FetchFailureIsEmptyResult ==
    [][\A w \in Workers :
          LET i == TaskOf(w)
          IN /\ (/\ worker[w].pc = "process_alerts"
                 /\ hist[i].fetch = "none"
                 /\ hist'[i].fetch = "error")
                => /\ alerts'[i] = alerts[i]
                   /\ \/ /\ worker'[w].pc = "complete"
                         /\ scans'[i] = WithSummary(scans[i], <<>>)
                      \/ /\ worker'[w].pc = "except"
                         /\ worker'[w].err = "storage error"
                         /\ scans'[i] = scans[i]
             /\ (/\ Running(w, "run_scan")
                 /\ hist'[i].fetch = "error"
                 /\ scans'[i].status = "completed")
                => /\ scans'[i].total_alerts = 0
                   /\ alerts'[i] = <<>>
                   /\ scans'[i].error_message = NULL]_vars

\* A scan COMPLETED with no finding after its fetch failed.
C38_Witness ==
    \E i \in ScanIds :
        /\ hist[i].fetch = "error"
        /\ scans[i].status = "completed"
        /\ scans[i].total_alerts = 0
        /\ alerts[i] = <<>>

\* ------------------------------------------- a run task without its row
\* The run_scan message of scan i is in the queue.
RunQueued(i) ==
    \E k \in 1..Len(queue) : queue[k].name = "run_scan" /\ queue[k].scan_id = i

\* C39: a worker that takes the run_scan message of a deleted scan changes
\* no row of scans or scan_alerts and starts no scan (it stays free, the
\* scan is not counted as started); a scan deleted before any worker started
\* it stays deleted, unchanged and without alert rows.
C39_RunTaskOfDeletedScan ==
    [][/\ (/\ queue # <<>>
           /\ Head(queue).name = "run_scan"
           /\ queue' = Tail(queue)
           /\ ~Present(Head(queue).scan_id))
          => UNCHANGED <<scans, alerts, worker, hist, zap>>
       /\ \A i \in ScanIds :
             (~Present(i) /\ hist[i].started = 0)
             => /\ scans'[i] = scans[i]
                /\ alerts'[i] = <<>>
                /\ hist'[i].started = 0]_vars

\* The run task of a scan deleted while PENDING has been taken and has
\* ended: the message was sent, is queued no more, was not revoked, and no
\* scan was started.
C39_Witness ==
    \E i \in ScanIds :
        /\ ~Present(i)
        /\ scans[i].status = "pending"
        /\ hist[i].enqueued = 1
        /\ hist[i].started = 0
        /\ ~RunQueued(i)
        /\ i \notin revoked
        /\ alerts[i] = <<>>

====
